---- MODULE Spec2Model ----
(***************************************************************************)
(* Model of the Klatt formant synthesizer's generator (src/src/Klatt.ts):  *)
(* the period-synchronous scheduler of Generator.generateFrame, the        *)
(* adoption of frame parameters at period boundaries, the glottal source   *)
(* period restart and generateSound.                                       *)
(*                                                                         *)
(* Number representation.  Frequencies and bandwidths are integer Hz, dB   *)
(* values are integers, ratios (openPhaseRatio, flutterLevel, the mod      *)
(* factors) are integer percent, durations are integer microseconds.       *)
(* NaN is the reserved value NaN below; every comparison of the source is  *)
(* translated with the IEEE rule that a comparison with NaN is false.      *)
(* Linear gains are fixed point with LinScale units per 1.0.  Filter       *)
(* coefficients are recorded by the arguments of the last successful set   *)
(* call (f, bw, gain), which determine them.                               *)
(***************************************************************************)
EXTENDS Integers, Sequences, FiniteSets, TLC

(* ---- bounds of the model ---- *)
MaxLen == 3            \* longest output buffer passed to generateFrame
MaxAbs == 6            \* calls are started only while absPosition + len <= MaxAbs
MaxFrames == 3         \* longest frame list passed to generateSound
MaxSample == 1          \* a filter on its own is stepped with inputs -MaxSample .. MaxSample
MaxDb == 105           \* dbToLin is applied to the dB values -MaxDb .. MaxDb and NaN

(* ---- program constants ---- *)
maxOralFormants == 6
NaN == -999999         \* the IEEE NaN
Infinity == 999999     \* the IEEE +Infinity: above every finite value of the model
Live == 777777         \* a signal value computed by an active filter or a source,
                       \* not known to be 0
LinScale == 10000      \* fixed-point unit of linear gains: LinScale = 1.0
TiltFreq == 3000       \* frequency at which the tilt attenuation is specified
F0Scale == 100         \* pState.f0 is kept in units of 1/F0Scale Hz
PercentScale == 100    \* ratios are kept in units of 1/PercentScale
DurationScale == 1000000  \* durations are kept in units of 1/DurationScale s

NoFrame == 0           \* undefined fParms / newFParms

(* ---- IEEE helpers ---- *)
IsNaN(x) == x = NaN
IsFinite(x) == ~IsNaN(x) /\ x # Infinity
\* JavaScript truthiness of a number: neither 0 nor NaN
Truthy(x) == ~IsNaN(x) /\ x # 0

\* Math.round(p / q) for integers p and q > 0: floor(p/q + 1/2)
RoundDiv(p, q) == (2 * p + q) \div (2 * q)

RECURSIVE Pow10(_)
Pow10(n) == IF n <= 0 THEN 1 ELSE 10 * Pow10(n - 1)

dbToLinExclusive(db) ==
  IF IsNaN(db) \/ db < -99 THEN 0
  ELSE IF db >= 0 THEN LinScale * Pow10(db \div 20)
  ELSE LinScale \div Pow10((-db) \div 20)

\* dbToLin on the dB values that are multiples of 20 in -80 .. 40 (where
\* 10^(db/20) is exact in units of 1/LinScale), on the values <= -99 and on NaN.
dbToLin(db) ==
  IF IsNaN(db) \/ db <= -99 THEN 0
  ELSE IF db >= 0 THEN LinScale * Pow10(db \div 20)
  ELSE LinScale \div Pow10((-db) \div 20)

(* ---- frame parameters ---- *)
\* The FrameParms objects the caller owns.  An instance is identified by its
\* index in Frames; two indices with equal records are value-equal but
\* distinct objects.
BaseFrame ==
  [ duration |-> 437, f0 |-> 2000, flutterLevel |-> 0, openPhaseRatio |-> 70,
    breathinessDb |-> -20, tiltDb |-> 0, gainDb |-> 0,
    nasalFormantFreq |-> NaN, nasalFormantBw |-> NaN,
    oralFormantFreq |-> <<520, 1006, 2831, 3168>>,
    oralFormantBw |-> <<76, 102, 72, 102>>,
    cascadeEnabled |-> TRUE, cascadeVoicingDb |-> 0, cascadeAspirationDb |-> -20,
    cascadeAspirationMod |-> 50,
    nasalAntiformantFreq |-> NaN, nasalAntiformantBw |-> NaN,
    parallelEnabled |-> FALSE, parallelVoicingDb |-> 0, parallelAspirationDb |-> -20,
    parallelAspirationMod |-> 50, fricationDb |-> -40, fricationMod |-> 50,
    parallelBypassDb |-> -99, nasalFormantDb |-> NaN,
    oralFormantDb |-> <<0, -20, -20, -40>> ]

Frames ==
  << BaseFrame,                                             \* 1: voiced, period 4
     BaseFrame,                                             \* 2: value-equal to 1
     [BaseFrame EXCEPT !.f0 = 0, !.duration = 0,            \* 3: unvoiced, tilted,
                       !.tiltDb = 20,                       \*    parallel branch
                       !.cascadeEnabled = FALSE, !.parallelEnabled = TRUE,
                       !.nasalFormantFreq = 300, !.nasalFormantBw = 100,
                       !.nasalFormantDb = -20,
                       !.nasalAntiformantFreq = 500, !.nasalAntiformantBw = 100,
                       !.fricationDb = -20, !.parallelBypassDb = -20],
     [BaseFrame EXCEPT !.f0 = 20000, !.gainDb = -99],       \* 4: f0 > 2 * sampleRate
     [BaseFrame EXCEPT !.f0 = 2300, !.flutterLevel = 100,   \* 5: fluttered
                       !.openPhaseRatio = 50, !.duration = 190],
     [BaseFrame EXCEPT !.f0 = NaN, !.gainDb = NaN],         \* 6: f0 = NaN
     [BaseFrame EXCEPT !.oralFormantFreq = <<520, 6000>>] >> \* 7: F2 above Nyquist

FrameIds == 1 .. Len(Frames)

\* The values a caller assigns to fields of a FrameParms object after it built
\* the object, and the record an instance holds once the fields in the set
\* fields have been assigned.
MutableFields == {"f0", "cascadeEnabled", "cascadeAspirationMod", "gainDb"}
Assigned(id, pairs) == {field \in MutableFields : <<id, field>> \in pairs}
Mutate(rec, fields) ==
  [rec EXCEPT !.f0 = IF "f0" \in fields THEN 4000 ELSE @,
              !.cascadeEnabled = IF "cascadeEnabled" \in fields THEN FALSE ELSE @,
              !.cascadeAspirationMod =
                 IF "cascadeAspirationMod" \in fields THEN 100 ELSE @,
              !.gainDb = IF "gainDb" \in fields THEN -99 ELSE @]

SampleRates == {8000, 10000}
GlottalSourceTypes == {"impulsive", "natural", "noise"}

VARIABLES
  mParms,         \* Generator.mParms: [sampleRate, glottalSourceType]
  fParms,         \* Generator.fParms: the active frame (instance id) or NoFrame
  newFParms,      \* Generator.newFParms: the pending frame or NoFrame
  fState,         \* Generator.fState: linear gains
  pState,         \* Generator.pState, with defined = FALSE while undefined
  absPosition,    \* Generator.absPosition
  filters,        \* tilt, cascade, parallel and output filters of the generator
  gSource,        \* state of the glottal source
  pc,             \* "idle": no call in progress, "loop": inside generateFrame's loop
  callFParms,     \* fParms argument of the current / most recent generateFrame call
  outLen,         \* outBuf.length of that call
  outPos,         \* loop variable outPos
  writeLog,       \* indices of outBuf written by that call, in order of writing
  err,            \* outcome of the most recent call: "none", "reused", "filter"
  absAtCall,      \* history: absPosition when the current call was entered
  lastPeriodStart, \* history: absolute sample index at which the latest period
                  \* was started, -1 before the first
  displaced,      \* history: since the latest period boundary, a pending frame
                  \* was replaced in the pending slot by a different frame
  boundaryInCall, \* history: a period boundary occurred during the current call
  sound,          \* generateSound: [active, frames, done, outBufLen, outBufPos, slices]
  unit,           \* a component exercised on its own: a function application or
                  \* one filter object, [kind |-> "none"] when there is none
  mutated,        \* the fields of the caller's FrameParms objects that the caller
                  \* has assigned since the objects were built: pairs <<instance, field>>
  samples,        \* the elements of outBuf written by the current call, in order
  adoptedParms    \* history: the fields of the active frame that had been assigned
                  \* when the frame was adopted

genVars == <<mParms, fParms, newFParms, fState, pState, absPosition, filters, gSource>>
callVars == <<pc, callFParms, outLen, outPos, writeLog, err>>
histVars == <<absAtCall, lastPeriodStart, displaced>>
vars == <<genVars, callVars, histVars, boundaryInCall, sound, unit, mutated, samples, adoptedParms>>

\* the record the FrameParms instance id was built with
frameObjAsBuilt(id) == Frames[id]
\* the record the FrameParms instance id holds now
frameObj(id) == Mutate(Frames[id], Assigned(id, mutated))

(* ---- primitive filters ---- *)
\* A filter is recorded by its mode flags and by the arguments of the last
\* successful set / adjust call, which determine its coefficients:
\*   f, bw      frequency and bandwidth (LpFilter1: f and, in bw's place, NaN)
\*   gainKind   "unset" | "dc" (a = (1-b-c) * gain) | "impulse" (a = gain)
\*              | "peak" (a = gain * (1-r)) | "peakDiff" (a = gain / diffGain * (1-r))
\*              | "lp" (LpFilter1: g = gain, extraGain = 1)
\*   gain       the gain argument, fixed point (LinScale = 1.0)
\* and by its delay line y1, y2 (Resonator: y[n-1], y[n-2]; AntiResonator: its
\* x1, x2 = x[n-1], x[n-2]; LpFilter1: y1 only), each 0, an input value, or Live.
NewFilter ==
  [passthrough |-> TRUE, muted |-> FALSE, f |-> NaN, bw |-> NaN,
   gainKind |-> "unset", gain |-> 0, y1 |-> 0, y2 |-> 0]

SetPassthroughKeepDelay(flt) == [flt EXCEPT !.passthrough = TRUE, !.muted = FALSE]
SetPassthrough(flt) ==
  [flt EXCEPT !.passthrough = TRUE, !.muted = FALSE, !.y1 = 0, !.y2 = 0]
\* a setMute that leaves the filter passing its input
SetMuteAsPassthrough(flt) ==
  [flt EXCEPT !.passthrough = TRUE, !.muted = FALSE, !.y1 = 0, !.y2 = 0]
SetMute(flt) ==
  [flt EXCEPT !.passthrough = FALSE, !.muted = TRUE, !.y1 = 0, !.y2 = 0]

\* step(x), the value returned: x in passthrough mode, 0 when muted, and else
\* a * x + b * y1 + c * y2, a computed value
FilterOut(flt, x) ==
  IF flt.passthrough THEN x ELSE IF flt.muted THEN 0 ELSE Live

\* step(x), the filter afterwards
LpFilter1Step(flt, x) ==
  IF flt.passthrough \/ flt.muted THEN flt ELSE [flt EXCEPT !.y1 = Live]
\* a Resonator.step that shifts its delay line in every mode
ResonatorStepAlways(flt, x) == [flt EXCEPT !.y2 = flt.y1, !.y1 = FilterOut(flt, x)]
ResonatorStep(flt, x) ==
  IF flt.passthrough \/ flt.muted THEN flt ELSE [flt EXCEPT !.y2 = flt.y1, !.y1 = Live]
AntiResonatorStep(flt, x) ==
  IF flt.passthrough \/ flt.muted THEN flt ELSE [flt EXCEPT !.y2 = flt.y1, !.y1 = x]

\* LpFilter1.set rejects: f <= 0, f >= sampleRate / 2, g <= 0, g >= 1, non-finite
LpFilter1Valid(sampleRate, f, g) ==
  /\ IsFinite(f) /\ IsFinite(g)
  /\ ~(f <= 0) /\ ~(2 * f >= sampleRate) /\ ~(g <= 0) /\ ~(g >= LinScale)
LpFilter1Set(flt, f, g) ==
  [flt EXCEPT !.passthrough = FALSE, !.muted = FALSE, !.f = f,
              !.gainKind = "lp", !.gain = g]

\* a Resonator.set that validates without the isFinite tests
ResonatorValidNoFinite(sampleRate, f, bw, dcGain) ==
  /\ ~IsNaN(f) /\ ~IsNaN(bw) /\ ~IsNaN(dcGain)
  /\ ~(f < 0) /\ ~(2 * f >= sampleRate) /\ ~(bw <= 0) /\ ~(dcGain <= 0)
\* Resonator.set rejects: f < 0, f >= sampleRate / 2, bw <= 0, dcGain <= 0, non-finite
ResonatorValid(sampleRate, f, bw, dcGain) ==
  /\ IsFinite(f) /\ IsFinite(bw) /\ IsFinite(dcGain)
  /\ ~(f < 0) /\ ~(2 * f >= sampleRate) /\ ~(bw <= 0) /\ ~(dcGain <= 0)
\* a Resonator.set that clears the delay line
ResonatorSetResetDelay(flt, f, bw, dcGain) ==
  [flt EXCEPT !.passthrough = FALSE, !.muted = FALSE, !.f = f, !.bw = bw,
              !.gainKind = "dc", !.gain = dcGain, !.y1 = 0, !.y2 = 0]
ResonatorSet(flt, f, bw, dcGain) ==
  [flt EXCEPT !.passthrough = FALSE, !.muted = FALSE, !.f = f, !.bw = bw,
              !.gainKind = "dc", !.gain = dcGain]
\* Resonator.adjustPeakGain rejects peakGain <= 0 and non-finite values
PeakGainValid(peakGain) == IsFinite(peakGain) /\ ~(peakGain <= 0)
AdjustPeakGain(flt, kind, peakGain) == [flt EXCEPT !.gainKind = kind, !.gain = peakGain]
\* Resonator.adjustImpulseGain
AdjustImpulseGain(flt, newA) == [flt EXCEPT !.gainKind = "impulse", !.gain = newA]

\* AntiResonator.set rejects: f <= 0, f >= sampleRate / 2, bw <= 0, non-finite.
\* Its a0 == 0 branch needs r = 1 and cos(w) = 1, which no bw > 0, f > 0 gives.
AntiResonatorValid(sampleRate, f, bw) ==
  /\ IsFinite(f) /\ IsFinite(bw)
  /\ ~(f <= 0) /\ ~(2 * f >= sampleRate) /\ ~(bw <= 0)
AntiResonatorSet(flt, f, bw) ==
  [flt EXCEPT !.passthrough = FALSE, !.muted = FALSE, !.f = f, !.bw = bw,
              !.gainKind = "dc", !.gain = LinScale]

(* ---- frame-parameter binder ---- *)
\* The binder's steps thread an accumulator acc = [fState, filters, thrown]:
\* a step that throws leaves everything as the steps before it made it and
\* sets thrown, and no later step of the adoption runs.

\* x[i] of a JavaScript array (0-based), NaN beyond its end
ArrayGet(arr, i) == IF i < Len(arr) THEN arr[i + 1] ELSE NaN

setTiltFilter(acc, sampleRate, tiltDb) ==
  IF ~Truthy(tiltDb)
    THEN [acc EXCEPT !.filters.tiltFilter = SetPassthrough(@)]
    ELSE IF LpFilter1Valid(sampleRate, TiltFreq, dbToLin(-tiltDb))
      THEN [acc EXCEPT !.filters.tiltFilter = LpFilter1Set(@, TiltFreq, dbToLin(-tiltDb))]
      ELSE [acc EXCEPT !.thrown = TRUE]

setNasalFormantCasc(acc, sampleRate, fp) ==
  IF Truthy(fp.nasalFormantFreq) /\ Truthy(fp.nasalFormantBw)
    THEN IF ResonatorValid(sampleRate, fp.nasalFormantFreq, fp.nasalFormantBw, LinScale)
      THEN [acc EXCEPT !.filters.nasalFormantCasc =
                          ResonatorSet(@, fp.nasalFormantFreq, fp.nasalFormantBw, LinScale)]
      ELSE [acc EXCEPT !.thrown = TRUE]
    ELSE [acc EXCEPT !.filters.nasalFormantCasc = SetPassthrough(@)]

setNasalAntiformantCasc(acc, sampleRate, fp) ==
  IF Truthy(fp.nasalAntiformantFreq) /\ Truthy(fp.nasalAntiformantBw)
    THEN IF AntiResonatorValid(sampleRate, fp.nasalAntiformantFreq, fp.nasalAntiformantBw)
      THEN [acc EXCEPT !.filters.nasalAntiformantCasc =
                          AntiResonatorSet(@, fp.nasalAntiformantFreq, fp.nasalAntiformantBw)]
      ELSE [acc EXCEPT !.thrown = TRUE]
    ELSE [acc EXCEPT !.filters.nasalAntiformantCasc = SetPassthrough(@)]

\* a setOralFormantCasc that configures for finite values only
setOralFormantCascFiniteOnly(acc, sampleRate, fp, i) ==
  LET f == ArrayGet(fp.oralFormantFreq, i)
      bw == ArrayGet(fp.oralFormantBw, i)
  IN IF Truthy(f) /\ Truthy(bw) /\ IsFinite(f) /\ IsFinite(bw)
       THEN IF ResonatorValid(sampleRate, f, bw, LinScale)
         THEN [acc EXCEPT !.filters.oralFormantCasc[i + 1] = ResonatorSet(@, f, bw, LinScale)]
         ELSE [acc EXCEPT !.thrown = TRUE]
       ELSE [acc EXCEPT !.filters.oralFormantCasc[i + 1] = SetPassthrough(@)]

setOralFormantCasc(acc, sampleRate, fp, i) ==
  LET f == ArrayGet(fp.oralFormantFreq, i)
      bw == ArrayGet(fp.oralFormantBw, i)
  IN IF Truthy(f) /\ Truthy(bw)
       THEN IF ResonatorValid(sampleRate, f, bw, LinScale)
         THEN [acc EXCEPT !.filters.oralFormantCasc[i + 1] = ResonatorSet(@, f, bw, LinScale)]
         ELSE [acc EXCEPT !.thrown = TRUE]
       ELSE [acc EXCEPT !.filters.oralFormantCasc[i + 1] = SetPassthrough(@)]

setNasalFormantPar(acc, sampleRate, fp) ==
  IF Truthy(fp.nasalFormantFreq) /\ Truthy(fp.nasalFormantBw) /\ Truthy(dbToLin(fp.nasalFormantDb))
    THEN IF ResonatorValid(sampleRate, fp.nasalFormantFreq, fp.nasalFormantBw, LinScale)
              /\ PeakGainValid(dbToLin(fp.nasalFormantDb))
      THEN [acc EXCEPT !.filters.nasalFormantPar =
              AdjustPeakGain(ResonatorSet(@, fp.nasalFormantFreq, fp.nasalFormantBw, LinScale),
                             "peak", dbToLin(fp.nasalFormantDb))]
      ELSE [acc EXCEPT !.thrown = TRUE]
    ELSE [acc EXCEPT !.filters.nasalFormantPar = SetMute(@)]

setOralFormantPar(acc, sampleRate, fp, i) ==
  LET formant == i + 1
      f == ArrayGet(fp.oralFormantFreq, i)
      bw == ArrayGet(fp.oralFormantBw, i)
      db == ArrayGet(fp.oralFormantDb, i)
      peakGain == dbToLin(db)
  IN IF Truthy(f) /\ Truthy(bw) /\ Truthy(peakGain)
       THEN IF ResonatorValid(sampleRate, f, bw, LinScale) /\ PeakGainValid(peakGain)
         THEN [acc EXCEPT !.filters.oralFormantPar[i + 1] =
                 AdjustPeakGain(ResonatorSet(@, f, bw, LinScale),
                                IF formant >= 2 THEN "peakDiff" ELSE "peak", peakGain)]
         ELSE [acc EXCEPT !.thrown = TRUE]
       ELSE [acc EXCEPT !.filters.oralFormantPar[i + 1] = SetMute(@)]

\* for (let i = 0; i < maxOralFormants; i++) setOralFormantCasc(...)
RECURSIVE OralFormantCascLoop(_, _, _, _)
OralFormantCascLoop(acc, sampleRate, fp, i) ==
  IF acc.thrown \/ i >= maxOralFormants THEN acc
  ELSE OralFormantCascLoop(setOralFormantCasc(acc, sampleRate, fp, i), sampleRate, fp, i + 1)

RECURSIVE OralFormantParLoop(_, _, _, _)
OralFormantParLoop(acc, sampleRate, fp, i) ==
  IF acc.thrown \/ i >= maxOralFormants THEN acc
  ELSE OralFormantParLoop(setOralFormantPar(acc, sampleRate, fp, i), sampleRate, fp, i + 1)

\* Generator.startUsingNewFrameParameters for the frame record fp
startUsingNewFrameParameters(fs0, flt0, sampleRate, fp) ==
  LET a0 == [fState |-> [fs0 EXCEPT !.breathinessLin = dbToLin(fp.breathinessDb),
                                    !.gainLin = dbToLin(fp.gainDb)],
             filters |-> flt0, thrown |-> FALSE]
      a1 == setTiltFilter(a0, sampleRate, fp.tiltDb)
      a2 == IF a1.thrown THEN a1
            ELSE [a1 EXCEPT !.fState.cascadeVoicingLin = dbToLin(fp.cascadeVoicingDb),
                            !.fState.cascadeAspirationLin = dbToLin(fp.cascadeAspirationDb)]
      a3 == IF a2.thrown THEN a2 ELSE setNasalFormantCasc(a2, sampleRate, fp)
      a4 == IF a3.thrown THEN a3 ELSE setNasalAntiformantCasc(a3, sampleRate, fp)
      a5 == OralFormantCascLoop(a4, sampleRate, fp, 0)
      a6 == IF a5.thrown THEN a5
            ELSE [a5 EXCEPT !.fState.parallelVoicingLin = dbToLin(fp.parallelVoicingDb),
                            !.fState.parallelAspirationLin = dbToLin(fp.parallelAspirationDb),
                            !.fState.fricationLin = dbToLin(fp.fricationDb),
                            !.fState.parallelBypassLin = dbToLin(fp.parallelBypassDb)]
      a7 == IF a6.thrown THEN a6 ELSE setNasalFormantPar(a6, sampleRate, fp)
  IN OralFormantParLoop(a7, sampleRate, fp, 0)

(* ---- period scheduler ---- *)
\* performFrequencyModulation: the values the modulated F0 can take, in units of
\* 1/F0Scale Hz.  With flutterLevel > 0 the factor 1 + a * flutterLevel / 50
\* depends on the time and on the generator's random flutterTimeOffset through
\* a = sin(..) + sin(..) + sin(..), any value in -3 .. 3: the model takes the
\* two extremes and the middle, in whole percent.
FlutterSpread(flutterLevel) == (3 * flutterLevel) \div 50
performFrequencyModulation(f0, flutterLevel) ==
  IF IsNaN(f0) \/ IsNaN(flutterLevel) THEN {NaN}
  ELSE IF flutterLevel <= 0 THEN {f0 * F0Scale}
  ELSE {f0 * (F0Scale + k) : k \in {-FlutterSpread(flutterLevel), 0, FlutterSpread(flutterLevel)}}

\* pState.periodLength = (pState.f0 > 0) ? Math.round(sampleRate / pState.f0) : 1
PeriodLength(sampleRate, f0) ==
  IF ~IsNaN(f0) /\ f0 > 0 THEN RoundDiv(sampleRate * F0Scale, f0) ELSE 1

\* pState.openPhaseLength = (periodLength > 1) ? Math.round(periodLength * openPhaseRatio) : 0
OpenPhaseLength(periodLength, openPhaseRatio) ==
  IF periodLength > 1 THEN RoundDiv(periodLength * openPhaseRatio, PercentScale) ELSE 0

\* the loop's test: !this.pState || positionInPeriod >= periodLength
NeedNewPeriod(ps) ==
  IF ps.defined THEN ps.positionInPeriod >= ps.periodLength ELSE TRUE

\* the test of generateFrame's first statement: fParms == this.fParms
IsReusedLastPassed(fp) == fp = callFParms
IsReused(fp) == fp = fParms

\* the loop condition of generateFrame: outPos < outBuf.length
LoopContinuesInclusive(pos, len) == pos <= len
LoopContinues(pos, len) == pos < len

(* ---- glottal sources ---- *)
\* gSource = [resonator, openPhaseLength, positionInPeriod]:
\*   impulsive: resonator is TRUE while the LP resonator exists, openPhaseLength is
\*              the value its bandwidth sampleRate / openPhaseLength was set from;
\*   natural:   openPhaseLength and positionInPeriod of the source;
\*   noise:     no state.
\* y1, y2 are the delay line of the impulsive source's resonator.
NewGlottalSource(type) ==
  [resonator |-> FALSE, openPhaseLength |-> 0,
   positionInPeriod |-> IF type = "impulsive" THEN NaN ELSE 0, y1 |-> 0, y2 |-> 0]

\* Generator.startGlottalSourcePeriod
startGlottalSourcePeriod(type, gs, openPhaseLength) ==
  IF type = "impulsive"
    THEN IF openPhaseLength = 0
      THEN [gs EXCEPT !.resonator = FALSE, !.y1 = 0, !.y2 = 0]
      ELSE [gs EXCEPT !.resonator = TRUE, !.openPhaseLength = openPhaseLength,
                      !.positionInPeriod = 0]
  ELSE IF type = "natural"
    THEN [gs EXCEPT !.openPhaseLength = openPhaseLength, !.positionInPeriod = 0]
  ELSE gs

\* this.glottalSource(): the state after getNext
glottalSourceNext(type, gs) ==
  IF type = "impulsive"
    THEN IF gs.resonator
      THEN [gs EXCEPT !.positionInPeriod = @ + 1, !.y2 = gs.y1, !.y1 = Live]
      ELSE gs
  ELSE IF type = "natural"
    THEN [gs EXCEPT !.positionInPeriod = @ + 1]
  ELSE gs

(* ---- Generator ---- *)
UndefinedPState ==
  [defined |-> FALSE, f0 |-> NaN, periodLength |-> 0, openPhaseLength |-> 0,
   positionInPeriod |-> 0]

UndefinedFState ==
  [breathinessLin |-> NaN, gainLin |-> NaN, cascadeVoicingLin |-> NaN,
   cascadeAspirationLin |-> NaN, parallelVoicingLin |-> NaN,
   parallelAspirationLin |-> NaN, fricationLin |-> NaN, parallelBypassLin |-> NaN]

\* the filters the constructor builds
NewFilters(sampleRate) ==
  [tiltFilter |-> NewFilter,
   outputLpFilter |-> ResonatorSet(NewFilter, 0, sampleRate \div 2, LinScale),
   nasalFormantCasc |-> NewFilter,
   nasalAntiformantCasc |-> NewFilter,
   oralFormantCasc |-> [i \in 1 .. maxOralFormants |-> NewFilter],
   nasalFormantPar |-> NewFilter,
   oralFormantPar |-> [i \in 1 .. maxOralFormants |-> NewFilter],
   differencingFilterPar |-> [x1 |-> 0],
   \* the low-pass filters of the three LpNoiseSource objects
   aspirationSourceCasc |-> [y1 |-> 0],
   aspirationSourcePar |-> [y1 |-> 0],
   fricationSourcePar |-> [y1 |-> 0]]

\* new Generator(mParms)
NewGenerator(mp) ==
  /\ mParms = mp
  /\ fParms = NoFrame
  /\ newFParms = NoFrame
  /\ fState = UndefinedFState
  /\ pState = UndefinedPState
  /\ absPosition = 0
  /\ filters = NewFilters(mp.sampleRate)
  /\ gSource = NewGlottalSource(mp.glottalSourceType)

\* the product of a signal value and a linear gain
Unscaled(x, gainLin) == x
Scale(x, gainLin) == IF x = 0 \/ gainLin = 0 THEN 0 ELSE Live

\* a modulation that compares the position with the integer half of the period
CurrentModFloor(ps, mod) == IF ps.positionInPeriod >= ps.periodLength \div 2 THEN mod ELSE 0
\* the modulation factor of a noise source: applied in the second half of the period
CurrentMod(ps, mod) == IF 2 * ps.positionInPeriod >= ps.periodLength THEN mod ELSE 0

\* an open phase that includes the position openPhaseLength
InOpenPhaseInclusive(ps) == ps.positionInPeriod <= ps.openPhaseLength
\* if (pState.positionInPeriod < pState.openPhaseLength): within the open phase
InOpenPhase(ps) == ps.positionInPeriod < ps.openPhaseLength

\* computeNextOutputSignalSample, the sample returned: its value (0 or a computed
\* value) and what was read for it from the FrameParms object fp and from fState.
\* The signal in front of the gain is the output of the output low-pass filter.
computeNextOutputSignalSample(fp, fs, ps, flts) ==
  [value |-> Scale(FilterOut(flts.outputLpFilter, Live), fs.gainLin),
   gainLin |-> fs.gainLin,
   breathinessAdded |-> InOpenPhase(ps),
   cascadeOut |-> IF fp.cascadeEnabled THEN Live ELSE 0,
   parallelOut |-> IF fp.parallelEnabled THEN Live ELSE 0,
   cascadeEnabled |-> fp.cascadeEnabled,
   parallelEnabled |-> fp.parallelEnabled,
   cascadeAspirationMod |->
     IF fp.cascadeEnabled THEN CurrentMod(ps, fp.cascadeAspirationMod) ELSE 0,
   parallelAspirationMod |->
     IF fp.parallelEnabled THEN CurrentMod(ps, fp.parallelAspirationMod) ELSE 0,
   fricationMod |->
     IF fp.parallelEnabled THEN CurrentMod(ps, fp.fricationMod) ELSE 0]

\* a sample computation that steps the filters of both branches whatever the
\* switches of the frame
SampleFiltersAllBranches(flts, fp) ==
  [flts EXCEPT
     !.aspirationSourceCasc = [y1 |-> Live],
     !.nasalAntiformantCasc = AntiResonatorStep(@, Live),
     !.nasalFormantCasc = ResonatorStep(@, Live),
     !.oralFormantCasc = [i \in 1 .. maxOralFormants |->
                            ResonatorStep(flts.oralFormantCasc[i], Live)],
     !.aspirationSourcePar = [y1 |-> Live],
     !.fricationSourcePar = [y1 |-> Live],
     !.differencingFilterPar = [x1 |-> Live],
     !.nasalFormantPar = ResonatorStep(@, Live),
     !.oralFormantPar = [i \in 1 .. maxOralFormants |->
                           ResonatorStep(flts.oralFormantPar[i], Live)],
     !.tiltFilter = LpFilter1Step(@, Live),
     !.outputLpFilter = ResonatorStep(@, Live)]

\* computeNextOutputSignalSample, the filters afterwards: the tilt filter and the
\* output filter are stepped for every sample, the filters of a branch when the
\* FrameParms object enables the branch.  Every filter is fed a signal value.
SampleFilters(flts, fp) ==
  LET casc == IF fp.cascadeEnabled
                THEN [flts EXCEPT
                        !.aspirationSourceCasc = [y1 |-> Live],
                        !.nasalAntiformantCasc = AntiResonatorStep(@, Live),
                        !.nasalFormantCasc = ResonatorStep(@, Live),
                        !.oralFormantCasc = [i \in 1 .. maxOralFormants |->
                                               ResonatorStep(flts.oralFormantCasc[i], Live)]]
                ELSE flts
      par == IF fp.parallelEnabled
               THEN [casc EXCEPT
                       !.aspirationSourcePar = [y1 |-> Live],
                       !.fricationSourcePar = [y1 |-> Live],
                       !.differencingFilterPar = [x1 |-> Live],
                       !.nasalFormantPar = ResonatorStep(@, Live),
                       !.oralFormantPar = [i \in 1 .. maxOralFormants |->
                                             ResonatorStep(flts.oralFormantPar[i], Live)]]
               ELSE casc
  IN [par EXCEPT !.tiltFilter = LpFilter1Step(@, Live),
                 !.outputLpFilter = ResonatorStep(@, Live)]

NoCall ==
  /\ pc = "idle"
  /\ callFParms = NoFrame
  /\ outLen = 0
  /\ outPos = 0
  /\ writeLog = <<>>
  /\ err = "none"
  /\ absAtCall = 0
  /\ lastPeriodStart = -1
  /\ displaced = FALSE
  /\ boundaryInCall = FALSE
  /\ mutated = {}
  /\ samples = <<>>
  /\ adoptedParms = {}

\* The adoption at the head of startNewPeriod: the frame that is active after it
\* and the result of startUsingNewFrameParameters (nothing to do without a
\* pending frame).
\* an adoption that leaves the gains and the filters as they are
AdoptionSkipped == [fState |-> fState, filters |-> filters, thrown |-> FALSE]
Adoption ==
  IF newFParms # NoFrame
    THEN startUsingNewFrameParameters(fState, filters, mParms.sampleRate, frameObj(newFParms))
    ELSE [fState |-> fState, filters |-> filters, thrown |-> FALSE]
AdoptedFrameFirstOnly == IF fParms = NoFrame THEN newFParms ELSE fParms
AdoptedFrame == IF newFParms # NoFrame THEN newFParms ELSE fParms

\* a generateFrame that assigns newFParms before it tests for reuse
GenerateFrameReusedAfterEnqueue(fp, len) ==
  /\ pc = "idle"
  /\ IsReused(fp)
  /\ newFParms' = fp
  /\ err' = "reused"
  /\ callFParms' = fp
  /\ outLen' = len
  /\ outPos' = 0
  /\ writeLog' = <<>>
  /\ absAtCall' = absPosition
  /\ boundaryInCall' = FALSE
  /\ samples' = <<>>
  /\ UNCHANGED <<mParms, fParms, fState, pState, absPosition, filters, gSource, pc,
                 lastPeriodStart, displaced, mutated, adoptedParms>>

\* generateFrame, first statement throws: nothing of the generator changes and
\* nothing is written to the buffer of the call.
GenerateFrameReused(fp, len) ==
  /\ pc = "idle"
  /\ IsReused(fp)
  /\ err' = "reused"
  /\ callFParms' = fp
  /\ outLen' = len
  /\ outPos' = 0
  /\ writeLog' = <<>>
  /\ absAtCall' = absPosition
  /\ boundaryInCall' = FALSE
  /\ samples' = <<>>
  /\ UNCHANGED <<genVars, pc, lastPeriodStart, displaced, mutated, adoptedParms>>

\* a generateFrame that installs the frame at once instead of enqueuing it
GenerateFrameEnterInstall(fp, len) ==
  /\ pc = "idle"
  /\ ~IsReused(fp)
  /\ fParms' = fp
  /\ pc' = "loop"
  /\ err' = "none"
  /\ callFParms' = fp
  /\ outLen' = len
  /\ outPos' = 0
  /\ writeLog' = <<>>
  /\ absAtCall' = absPosition
  /\ boundaryInCall' = FALSE
  /\ samples' = <<>>
  /\ UNCHANGED <<mParms, newFParms, fState, pState, absPosition, filters, gSource,
                 lastPeriodStart, displaced, mutated, adoptedParms>>

\* generateFrame up to the loop: this.newFParms = fParms
GenerateFrameEnter(fp, len) ==
  /\ pc = "idle"
  /\ ~IsReused(fp)
  /\ newFParms' = fp
  /\ pc' = "loop"
  /\ err' = "none"
  /\ callFParms' = fp
  /\ outLen' = len
  /\ outPos' = 0
  /\ writeLog' = <<>>
  /\ absAtCall' = absPosition
  /\ boundaryInCall' = FALSE
  /\ displaced' = IF newFParms # NoFrame /\ newFParms # fp THEN TRUE ELSE displaced
  /\ samples' = <<>>
  /\ UNCHANGED <<mParms, fParms, fState, pState, absPosition, filters, gSource,
                 lastPeriodStart, mutated, adoptedParms>>

\* One iteration of generateFrame's loop that starts a new period:
\* startNewPeriod, computeNextOutputSignalSample, the write and the increments.
StepNewPeriod ==
  /\ pc = "loop"
  /\ LoopContinues(outPos, outLen)
  /\ NeedNewPeriod(pState)
  /\ LET adoption == Adoption
         fp == frameObj(AdoptedFrame)
     IN /\ ~adoption.thrown
        /\ \E f0 \in performFrequencyModulation(fp.f0, fp.flutterLevel) :
             LET periodLength == PeriodLength(mParms.sampleRate, f0)
                 openPhaseLength == OpenPhaseLength(periodLength, fp.openPhaseRatio)
                 ps == [defined |-> TRUE, f0 |-> f0, periodLength |-> periodLength,
                        openPhaseLength |-> openPhaseLength, positionInPeriod |-> 0]
             IN /\ pState' = [ps EXCEPT !.positionInPeriod = @ + 1]
                /\ gSource' = glottalSourceNext(mParms.glottalSourceType,
                                 startGlottalSourcePeriod(mParms.glottalSourceType, gSource,
                                                          openPhaseLength))
                /\ samples' = Append(samples,
                                 computeNextOutputSignalSample(fp, adoption.fState, ps,
                                                               adoption.filters))
        /\ fState' = adoption.fState
        /\ filters' = SampleFilters(adoption.filters, fp)
  /\ fParms' = AdoptedFrame
  /\ newFParms' = NoFrame
  /\ adoptedParms' = IF newFParms # NoFrame THEN Assigned(newFParms, mutated) ELSE adoptedParms
  /\ writeLog' = Append(writeLog, outPos)
  /\ outPos' = outPos + 1
  /\ absPosition' = absPosition + 1
  /\ lastPeriodStart' = absPosition
  /\ boundaryInCall' = TRUE
  /\ displaced' = FALSE
  /\ UNCHANGED <<mParms, pc, callFParms, outLen, err, absAtCall, sound, unit, mutated>>

\* One iteration of the loop inside a period.
StepSample ==
  /\ pc = "loop"
  /\ LoopContinues(outPos, outLen)
  /\ ~NeedNewPeriod(pState)
  /\ gSource' = glottalSourceNext(mParms.glottalSourceType, gSource)
  /\ samples' = Append(samples,
                   computeNextOutputSignalSample(frameObj(fParms), fState, pState, filters))
  /\ filters' = SampleFilters(filters, frameObj(fParms))
  /\ pState' = [pState EXCEPT !.positionInPeriod = @ + 1]
  /\ writeLog' = Append(writeLog, outPos)
  /\ outPos' = outPos + 1
  /\ absPosition' = absPosition + 1
  /\ UNCHANGED <<mParms, fParms, newFParms, fState, pc, callFParms, outLen, err,
                 histVars, boundaryInCall, sound, unit, mutated, adoptedParms>>

\* an iteration whose failed adoption is undone: the frame stays pending and the
\* active frame, the gains and the filters are those from before
StepAdoptErrorRollback ==
  /\ pc = "loop"
  /\ LoopContinues(outPos, outLen)
  /\ NeedNewPeriod(pState)
  /\ Adoption.thrown
  /\ pc' = "idle"
  /\ err' = "filter"
  /\ boundaryInCall' = TRUE
  /\ UNCHANGED <<genVars, callFParms, outLen, outPos, writeLog, histVars, sound, unit,
                 mutated, samples, adoptedParms>>

\* an iteration that writes a sample and advances although the adoption threw
StepAdoptErrorAfterWrite ==
  /\ pc = "loop"
  /\ LoopContinues(outPos, outLen)
  /\ NeedNewPeriod(pState)
  /\ LET adoption == Adoption
     IN /\ adoption.thrown
        /\ fState' = adoption.fState
        /\ filters' = adoption.filters
        /\ samples' = Append(samples,
                         computeNextOutputSignalSample(frameObj(AdoptedFrame), adoption.fState,
                                                       pState, adoption.filters))
  /\ fParms' = AdoptedFrame
  /\ newFParms' = NoFrame
  /\ adoptedParms' = IF newFParms # NoFrame THEN Assigned(newFParms, mutated) ELSE adoptedParms
  /\ pc' = "idle"
  /\ err' = "filter"
  /\ boundaryInCall' = TRUE
  /\ displaced' = FALSE
  /\ writeLog' = Append(writeLog, outPos)
  /\ outPos' = outPos + 1
  /\ absPosition' = absPosition + 1
  /\ UNCHANGED <<mParms, pState, gSource, callFParms, outLen,
                 absAtCall, lastPeriodStart, sound, unit, mutated>>

\* An iteration whose startNewPeriod throws in startUsingNewFrameParameters: the
\* frame is already installed and the pending slot cleared, the binder's steps
\* before the failing one have acted, and the exception ends the call.
StepAdoptError ==
  /\ pc = "loop"
  /\ LoopContinues(outPos, outLen)
  /\ NeedNewPeriod(pState)
  /\ LET adoption == Adoption
     IN /\ adoption.thrown
        /\ fState' = adoption.fState
        /\ filters' = adoption.filters
  /\ fParms' = AdoptedFrame
  /\ newFParms' = NoFrame
  /\ adoptedParms' = IF newFParms # NoFrame THEN Assigned(newFParms, mutated) ELSE adoptedParms
  /\ pc' = "idle"
  /\ err' = "filter"
  /\ boundaryInCall' = TRUE
  /\ displaced' = FALSE
  /\ UNCHANGED <<mParms, pState, absPosition, gSource, callFParms, outLen, outPos, writeLog,
                 absAtCall, lastPeriodStart, sound, unit, mutated, samples>>

\* the loop ends: outPos = outBuf.length.  The record of the call (its buffer
\* and loop variable) is dropped with the call.
LoopExit ==
  /\ pc = "loop"
  /\ ~LoopContinues(outPos, outLen)
  /\ pc' = "idle"
  /\ outLen' = 0
  /\ outPos' = 0
  /\ writeLog' = <<>>
  /\ absAtCall' = absPosition
  /\ samples' = <<>>
  /\ UNCHANGED <<genVars, callFParms, err, lastPeriodStart, displaced, boundaryInCall,
                 mutated, adoptedParms>>

(* ---- a caller of generateFrame with arbitrary frames and buffers ---- *)
NoUnit == [kind |-> "none"]

NoSound ==
  [active |-> FALSE, fParmsA |-> <<>>, next |-> 1, outBufLen |-> 0, outBufPos |-> 0,
   slices |-> <<>>, returned |-> FALSE]

Init ==
  /\ \E sr \in SampleRates, type \in GlottalSourceTypes :
       NewGenerator([sampleRate |-> sr, glottalSourceType |-> type])
  /\ NoCall
  /\ sound = NoSound
  /\ unit = NoUnit

GenerateFrameThrows == \E fp \in FrameIds, len \in 0 .. MaxLen :
  /\ GenerateFrameReused(fp, len)
  /\ UNCHANGED <<sound, unit>>

GenerateFrame == \E fp \in FrameIds, len \in 0 .. MaxLen :
  /\ absPosition + len <= MaxAbs
  /\ GenerateFrameEnter(fp, len)
  /\ UNCHANGED <<sound, unit>>

GenerateFrameReturn ==
  /\ ~sound.active
  /\ LoopExit
  /\ UNCHANGED <<sound, unit>>

Next ==
  \/ GenerateFrameThrows
  \/ GenerateFrame
  \/ StepNewPeriod
  \/ StepSample
  \/ StepAdoptError
  \/ GenerateFrameReturn

Spec == Init /\ [][Next]_vars


(* ---- a caller that passes value-equal frames only ---- *)
GenerateFrameThrowsConst == \E fp \in FrameIds, len \in 0 .. MaxLen :
  /\ IF callFParms = NoFrame THEN TRUE ELSE Frames[fp] = Frames[callFParms]
  /\ GenerateFrameReused(fp, len)
  /\ UNCHANGED <<sound, unit>>

GenerateFrameConst == \E fp \in FrameIds, len \in 0 .. MaxLen :
  /\ IF callFParms = NoFrame THEN TRUE ELSE Frames[fp] = Frames[callFParms]
  /\ absPosition + len <= MaxAbs
  /\ GenerateFrameEnter(fp, len)
  /\ UNCHANGED <<sound, unit>>

NextConst ==
  \/ GenerateFrameThrowsConst
  \/ GenerateFrameConst
  \/ StepNewPeriod
  \/ StepSample
  \/ StepAdoptError
  \/ GenerateFrameReturn

SpecConst == Init /\ [][NextConst]_vars

(* ---- a caller that assigns fields of a frame it has passed ---- *)
\* The instances this caller passes.
MutFrames == {1, 3, 7}
\* The instances whose fields it assigns after it passed them.
MutObjects == {1}

\* The caller assigns a field of the object the generator holds as its active
\* frame.  The caller's code runs between generateFrame calls only.
MutateFrame == \E field \in MutableFields :
  /\ pc = "idle"
  /\ fParms \in MutObjects
  /\ <<fParms, field>> \notin mutated
  /\ mutated' = mutated \cup {<<fParms, field>>}
  /\ UNCHANGED <<genVars, callVars, histVars, boundaryInCall, sound, unit, samples,
                 adoptedParms>>

GenerateFrameThrowsMut == \E fp \in MutFrames, len \in 0 .. MaxLen :
  /\ GenerateFrameReused(fp, len)
  /\ UNCHANGED <<sound, unit>>

GenerateFrameMut == \E fp \in MutFrames, len \in 0 .. MaxLen :
  /\ absPosition + len <= MaxAbs
  /\ GenerateFrameEnter(fp, len)
  /\ UNCHANGED <<sound, unit>>

NextMut ==
  \/ MutateFrame
  \/ GenerateFrameThrowsMut
  \/ GenerateFrameMut
  \/ StepNewPeriod
  \/ StepSample
  \/ StepAdoptError
  \/ GenerateFrameReturn

SpecMut == Init /\ [][NextMut]_vars

(* ---- generateSound ---- *)
\* Math.round(fParms.duration * mParms.sampleRate)
FrameLenTruncated(sampleRate, fp) == (Frames[fp].duration * sampleRate) \div DurationScale
FrameLen(sampleRate, fp) == RoundDiv(Frames[fp].duration * sampleRate, DurationScale)

\* the first loop of generateSound: outBufLen += Math.round(duration * sampleRate)
RECURSIVE OutBufLen(_, _, _)
OutBufLen(sampleRate, fParmsA, n) ==
  IF n = 0 THEN 0
  ELSE OutBufLen(sampleRate, fParmsA, n - 1) + FrameLen(sampleRate, fParmsA[n])

\* TypedArray.subarray(begin, end) on a buffer of bufLen elements: both indices
\* are clamped to 0 .. bufLen and the view is empty when end < begin
Clamp(x, bufLen) == IF x < 0 THEN 0 ELSE IF x > bufLen THEN bufLen ELSE x
Subarray(bufLen, begin, end) ==
  <<Clamp(begin, bufLen),
    IF Clamp(end, bufLen) < Clamp(begin, bufLen) THEN Clamp(begin, bufLen)
    ELSE Clamp(end, bufLen)>>

FrameLists == UNION {[1 .. n -> FrameIds] : n \in 0 .. MaxFrames}

\* generateSound up to its second loop: the generator and the buffer exist
InitSound ==
  /\ \E sr \in SampleRates, type \in GlottalSourceTypes :
       /\ NewGenerator([sampleRate |-> sr, glottalSourceType |-> type])
       /\ \E fParmsA \in FrameLists :
            sound = [active |-> TRUE, fParmsA |-> fParmsA, next |-> 1,
                     outBufLen |-> OutBufLen(sr, fParmsA, Len(fParmsA)),
                     outBufPos |-> 0, slices |-> <<>>, returned |-> FALSE]
  /\ NoCall
  /\ unit = NoUnit

\* the frame and the view of outBuf that the second loop passes next
SoundFrame == sound.fParmsA[sound.next]
SoundSlice ==
  Subarray(sound.outBufLen, sound.outBufPos,
           sound.outBufPos + FrameLen(mParms.sampleRate, SoundFrame))

SoundCanCall ==
  /\ sound.active
  /\ ~sound.returned
  /\ err = "none"
  /\ sound.next <= Len(sound.fParmsA)

\* generator.generateFrame(fParms, frameBuf) throws at once: generateSound ends
SoundGenerateFrameThrows ==
  /\ SoundCanCall
  /\ GenerateFrameReused(SoundFrame, SoundSlice[2] - SoundSlice[1])
  /\ sound' = [sound EXCEPT !.slices = Append(@, SoundSlice)]
  /\ UNCHANGED unit

\* generator.generateFrame(fParms, frameBuf) enters its loop
SoundGenerateFrame ==
  /\ SoundCanCall
  /\ GenerateFrameEnter(SoundFrame, SoundSlice[2] - SoundSlice[1])
  /\ sound' = [sound EXCEPT !.slices = Append(@, SoundSlice)]
  /\ UNCHANGED unit

\* generateFrame returns: outBufPos += frameLen, and the loop goes on
SoundFrameReturn ==
  /\ sound.active
  /\ LoopExit
  /\ sound' = [sound EXCEPT !.outBufPos = @ + FrameLen(mParms.sampleRate, SoundFrame),
                            !.next = @ + 1]
  /\ UNCHANGED unit

\* return outBuf
SoundReturn ==
  /\ sound.active
  /\ ~sound.returned
  /\ pc = "idle"
  /\ err = "none"
  /\ sound.next > Len(sound.fParmsA)
  /\ sound' = [sound EXCEPT !.returned = TRUE]
  /\ UNCHANGED <<genVars, callVars, histVars, boundaryInCall, unit, mutated, samples, adoptedParms>>

NextSound ==
  \/ SoundGenerateFrameThrows
  \/ SoundGenerateFrame
  \/ StepNewPeriod
  \/ StepSample
  \/ StepAdoptError
  \/ SoundFrameReturn
  \/ SoundReturn

SpecSound == InitSound /\ [][NextSound]_vars

(* ---- dbToLin applied on its own ---- *)
\* the generator and the call record are not involved
progVars == <<genVars, callVars, histVars, boundaryInCall, sound, mutated, samples, adoptedParms>>

DbInputs == (-MaxDb .. MaxDb) \cup {NaN}

InitDb ==
  /\ \E sr \in SampleRates, type \in GlottalSourceTypes :
       NewGenerator([sampleRate |-> sr, glottalSourceType |-> type])
  /\ NoCall
  /\ sound = NoSound
  /\ \E db \in DbInputs :
       unit = [kind |-> "dbToLin", arg |-> db, result |-> NaN, applied |-> FALSE]

\* const lin = dbToLin(db)
ApplyDbToLin ==
  /\ unit.kind = "dbToLin"
  /\ ~unit.applied
  /\ unit' = [unit EXCEPT !.result = dbToLin(unit.arg), !.applied = TRUE]
  /\ UNCHANGED progVars

NextDb == ApplyDbToLin

SpecDb == InitDb /\ [][NextDb]_vars

(* ---- one filter object on its own ---- *)
FilterClasses == {"LpFilter1", "Resonator", "AntiResonator"}
\* arguments of the configurators: below, at and inside the valid ranges, at the
\* Nyquist frequency, NaN and Infinity
FreqArgs(sampleRate) == {NaN, -1, 0, 500, sampleRate \div 2, Infinity}
BwArgs == {NaN, 0, 100, Infinity}
GainArgs == {NaN, 0, LinScale \div 2, LinScale, Infinity}
SampleInputs == -MaxSample .. MaxSample

InitFilter ==
  /\ \E sr \in SampleRates :
       NewGenerator([sampleRate |-> sr, glottalSourceType |-> "noise"])
  /\ NoCall
  /\ sound = NoSound
  /\ \E class \in FilterClasses :
       unit = [kind |-> "filter", class |-> class, flt |-> NewFilter, op |-> "new",
               args |-> <<>>, thrown |-> FALSE, x |-> 0, y |-> 0]

\* the filter after a call of op, and whether the call threw; the arguments of
\* a call that threw are kept with it
FilterCall(op, args, flt, thrown) ==
  /\ unit.kind = "filter"
  /\ unit' = [unit EXCEPT !.flt = flt, !.op = op, !.thrown = thrown,
                           !.args = IF thrown THEN args ELSE <<>>,
                           !.x = 0, !.y = 0]
  /\ UNCHANGED progVars

\* filter.set(f, g) of an LpFilter1
FilterSetLp == \E f \in FreqArgs(mParms.sampleRate), g \in GainArgs :
  /\ unit.class = "LpFilter1"
  /\ IF LpFilter1Valid(mParms.sampleRate, f, g)
       THEN FilterCall("set", <<f, g>>, LpFilter1Set(unit.flt, f, g), FALSE)
       ELSE FilterCall("set", <<f, g>>, unit.flt, TRUE)

\* filter.set(f, bw, dcGain) of a Resonator
FilterSetResonator == \E f \in FreqArgs(mParms.sampleRate), bw \in BwArgs, dcGain \in GainArgs :
  /\ unit.class = "Resonator"
  /\ IF ResonatorValid(mParms.sampleRate, f, bw, dcGain)
       THEN FilterCall("set", <<f, bw, dcGain>>, ResonatorSet(unit.flt, f, bw, dcGain), FALSE)
       ELSE FilterCall("set", <<f, bw, dcGain>>, unit.flt, TRUE)

\* filter.set(f, bw) of an AntiResonator
FilterSetAntiResonator == \E f \in FreqArgs(mParms.sampleRate), bw \in BwArgs :
  /\ unit.class = "AntiResonator"
  /\ IF AntiResonatorValid(mParms.sampleRate, f, bw)
       THEN FilterCall("set", <<f, bw>>, AntiResonatorSet(unit.flt, f, bw), FALSE)
       ELSE FilterCall("set", <<f, bw>>, unit.flt, TRUE)

\* resonator.adjustPeakGain(peakGain)
FilterAdjustPeakGain == \E peakGain \in GainArgs :
  /\ unit.class = "Resonator"
  /\ IF PeakGainValid(peakGain)
       THEN FilterCall("adjustPeakGain", <<peakGain>>, AdjustPeakGain(unit.flt, "peak", peakGain), FALSE)
       ELSE FilterCall("adjustPeakGain", <<peakGain>>, unit.flt, TRUE)

\* resonator.adjustImpulseGain(newA)
FilterAdjustImpulseGain == \E newA \in {LinScale \div 2, LinScale} :
  /\ unit.class = "Resonator"
  /\ FilterCall("adjustImpulseGain", <<newA>>, AdjustImpulseGain(unit.flt, newA), FALSE)

FilterSetPassthrough == FilterCall("setPassthrough", <<>>, SetPassthrough(unit.flt), FALSE)

FilterSetMute == FilterCall("setMute", <<>>, SetMute(unit.flt), FALSE)

\* y = filter.step(x)
FilterStep == \E x \in SampleInputs :
  /\ unit.kind = "filter"
  /\ unit' = [unit EXCEPT !.op = "step", !.args = <<>>, !.thrown = FALSE, !.x = x,
                           !.y = FilterOut(unit.flt, x),
                           !.flt = CASE unit.class = "LpFilter1" -> LpFilter1Step(unit.flt, x)
                                     [] unit.class = "Resonator" -> ResonatorStep(unit.flt, x)
                                     [] OTHER -> AntiResonatorStep(unit.flt, x)]
  /\ UNCHANGED progVars

NextFilter ==
  \/ FilterSetLp
  \/ FilterSetResonator
  \/ FilterSetAntiResonator
  \/ FilterAdjustPeakGain
  \/ FilterAdjustImpulseGain
  \/ FilterSetPassthrough
  \/ FilterSetMute
  \/ FilterStep

SpecFilter == InitFilter /\ [][NextFilter]_vars

(* ---- the sum of the parallel branch on its own ---- *)
\* const alternatingSign = (i % 2 == 0) ? 1 : -1
AlternatingSignNone(i) == 1
AlternatingSign(i) == IF i % 2 = 0 THEN 1 ELSE -1

\* for (let i = 1; i < maxOralFormants; i++)
\*    v += alternatingSign * this.oralFormantPar[i].step(source2)
RECURSIVE OralFormantParSum(_, _, _)
OralFormantParSum(oralFormantPar, source2, i) ==
  IF i >= maxOralFormants THEN 0
  ELSE AlternatingSign(i) * FilterOut(oralFormantPar[i + 1], source2)
         + OralFormantParSum(oralFormantPar, source2, i + 1)

\* computeParallelBranch from source on: x1 is the state of the differencing
\* filter (the source of the sample before), fricationNoise the frication noise
\* after its gain and modulation
computeParallelBranch(source, x1, fricationNoise, parallelBypassLin, nasalFormantPar, oralFormantPar) ==
  LET sourceDifference == source - x1
      source2 == sourceDifference + fricationNoise
  IN FilterOut(nasalFormantPar, source)
       + FilterOut(oralFormantPar[1], source)
       + OralFormantParSum(oralFormantPar, source2, 1)
       + (parallelBypassLin * source2) \div LinScale

\* resonators whose step returns an exact value: passthrough (x) or muted (0)
ExactFilters == {NewFilter, SetMute(NewFilter)}

InitParallel ==
  /\ NewGenerator([sampleRate |-> 10000, glottalSourceType |-> "noise"])
  /\ NoCall
  /\ sound = NoSound
  /\ \E source \in SampleInputs, x1 \in SampleInputs, fricationNoise \in SampleInputs,
        parallelBypassLin \in {0, LinScale},
        nasalFormantPar \in ExactFilters,
        oralFormantPar \in [1 .. maxOralFormants -> ExactFilters] :
       unit = [kind |-> "parallel", source |-> source, x1 |-> x1,
               fricationNoise |-> fricationNoise, parallelBypassLin |-> parallelBypassLin,
               nasalFormantPar |-> nasalFormantPar, oralFormantPar |-> oralFormantPar,
               v |-> 0, applied |-> FALSE]

\* const parallelOut = this.computeParallelBranch(voice)
ApplyParallelBranch ==
  /\ unit.kind = "parallel"
  /\ ~unit.applied
  /\ unit' = [unit EXCEPT !.applied = TRUE,
                           !.v = computeParallelBranch(unit.source, unit.x1, unit.fricationNoise,
                                    unit.parallelBypassLin, unit.nasalFormantPar,
                                    unit.oralFormantPar)]
  /\ UNCHANGED progVars

NextParallel == ApplyParallelBranch

SpecParallel == InitParallel /\ [][NextParallel]_vars

(* ---- the frame-parameter binder on its own ---- *)
\* A frame that configures every filter of the generator.
FullFrame ==
  [BaseFrame EXCEPT !.tiltDb = 20, !.parallelEnabled = TRUE,
                    !.nasalFormantFreq = 300, !.nasalFormantBw = 100, !.nasalFormantDb = -20,
                    !.nasalAntiformantFreq = 500, !.nasalAntiformantBw = 100,
                    !.oralFormantFreq = <<520, 1006, 2831, 3168, 3500, 3800>>,
                    !.oralFormantBw = <<76, 102, 72, 102, 200, 200>>,
                    !.oralFormantDb = <<0, -20, -20, -40, -40, -40>>]

\* values of a frequency, a bandwidth, a level and the tilt: disabled (NaN, 0,
\* -99 dB), usable, and not finite
BinderFreqs == {NaN, 0, 500, Infinity}
BinderBws == {NaN, 0, 100, Infinity}
BinderDbs == {NaN, -99, -20, 0}
TiltDbs == {NaN, 0, 20, 40, -20, 100}
\* lengths of the oral formant arrays: the formant at index 1 is beyond the end
\* (1) or present (2, 6)
ArrayLens == {1, 2, maxOralFormants}

\* FullFrame with one group of parameters varied
TiltFrames == {[FullFrame EXCEPT !.tiltDb = t] : t \in TiltDbs}
NasalFrames ==
  {[FullFrame EXCEPT !.nasalFormantFreq = f, !.nasalFormantBw = bw, !.nasalFormantDb = db]
     : f \in BinderFreqs, bw \in BinderBws, db \in BinderDbs}
AntiformantFrames ==
  {[FullFrame EXCEPT !.nasalAntiformantFreq = f, !.nasalAntiformantBw = bw]
     : f \in BinderFreqs, bw \in BinderBws}
OralFrames ==
  {[FullFrame EXCEPT !.oralFormantFreq = SubSeq([FullFrame.oralFormantFreq EXCEPT ![2] = f], 1, n),
                     !.oralFormantBw = SubSeq([FullFrame.oralFormantBw EXCEPT ![2] = bw], 1, n),
                     !.oralFormantDb = SubSeq([FullFrame.oralFormantDb EXCEPT ![2] = db], 1, n)]
     : f \in BinderFreqs, bw \in BinderBws, db \in BinderDbs, n \in ArrayLens}
BinderFrames ==
  [group : {"tilt"}, fp : TiltFrames] \cup [group : {"nasal"}, fp : NasalFrames]
    \cup [group : {"antiformant"}, fp : AntiformantFrames]
    \cup [group : {"oral"}, fp : OralFrames]

\* The generator before the adoption: new, or after FullFrame was adopted and two
\* samples were computed (every filter active, every delay line in use).
InitBinder ==
  /\ \E sr \in SampleRates, used \in BOOLEAN :
       LET new == NewFilters(sr)
           adoption == startUsingNewFrameParameters(UndefinedFState, new, sr, FullFrame)
       IN /\ mParms = [sampleRate |-> sr, glottalSourceType |-> "noise"]
          /\ fState = IF used THEN adoption.fState ELSE UndefinedFState
          /\ filters = IF used
                         THEN SampleFilters(SampleFilters(adoption.filters, FullFrame), FullFrame)
                         ELSE new
  /\ fParms = NoFrame
  /\ newFParms = NoFrame
  /\ pState = UndefinedPState
  /\ absPosition = 0
  /\ gSource = NewGlottalSource("noise")
  /\ NoCall
  /\ sound = NoSound
  /\ \E frame \in BinderFrames :
       unit = [kind |-> "binder", group |-> frame.group, fp |-> frame.fp,
               applied |-> FALSE, thrown |-> FALSE]

\* this.startUsingNewFrameParameters() for the frame unit.fp
ApplyBinder ==
  /\ unit.kind = "binder"
  /\ ~unit.applied
  /\ LET adoption == startUsingNewFrameParameters(fState, filters, mParms.sampleRate, unit.fp)
     IN /\ fState' = adoption.fState
        /\ filters' = adoption.filters
        /\ unit' = [unit EXCEPT !.applied = TRUE, !.thrown = adoption.thrown]
  /\ UNCHANGED <<mParms, fParms, newFParms, pState, absPosition, gSource, callVars, histVars,
                 boundaryInCall, sound, mutated, samples, adoptedParms>>

NextBinder == ApplyBinder

SpecBinder == InitBinder /\ [][NextBinder]_vars

(* ---- the impulsive glottal source over periods of every length ---- *)
MaxPulse == 8

\* fundamental frequencies (Hz) and open phase ratios of the frames that
\* schedule the periods
ImpulsiveF0s == {0, 1000, 2000, 2700, 4000, 20000}
ImpulsiveRatios == {0, 50, 70, 100}

\* ImpulsiveGlottalSource.getNext: the pulse that drives the low-pass resonator,
\* and 0, the value returned, while there is no resonator
ImpulsivePulse(gs) ==
  IF ~gs.resonator THEN 0
  ELSE IF gs.positionInPeriod = 1 THEN 1
  ELSE IF gs.positionInPeriod = 2 THEN -1
  ELSE 0

InitImpulsive ==
  /\ \E sr \in SampleRates :
       NewGenerator([sampleRate |-> sr, glottalSourceType |-> "impulsive"])
  /\ NoCall
  /\ sound = NoSound
  /\ unit = [kind |-> "impulsive", pulses |-> <<>>]

\* startNewPeriod for a frame with the given f0 and openPhaseRatio, and the
\* glottal source's sample of the iteration
ImpulsiveNewPeriod ==
  /\ unit.kind = "impulsive"
  /\ absPosition < MaxPulse
  /\ NeedNewPeriod(pState)
  /\ \E f0 \in ImpulsiveF0s, openPhaseRatio \in ImpulsiveRatios :
       LET periodLength == PeriodLength(mParms.sampleRate, f0 * F0Scale)
           openPhaseLength == OpenPhaseLength(periodLength, openPhaseRatio)
           gs == startGlottalSourcePeriod("impulsive", gSource, openPhaseLength)
       IN /\ pState' = [defined |-> TRUE, f0 |-> f0 * F0Scale, periodLength |-> periodLength,
                        openPhaseLength |-> openPhaseLength, positionInPeriod |-> 1]
          /\ unit' = [unit EXCEPT !.pulses = <<ImpulsivePulse(gs)>>]
          /\ gSource' = glottalSourceNext("impulsive", gs)
  /\ absPosition' = absPosition + 1
  /\ UNCHANGED <<mParms, fParms, newFParms, fState, filters, callVars, histVars,
                 boundaryInCall, sound, mutated, samples, adoptedParms>>

\* the glottal source's sample of an iteration inside a period
ImpulsiveSample ==
  /\ unit.kind = "impulsive"
  /\ absPosition < MaxPulse
  /\ ~NeedNewPeriod(pState)
  /\ unit' = [unit EXCEPT !.pulses = Append(@, ImpulsivePulse(gSource))]
  /\ gSource' = glottalSourceNext("impulsive", gSource)
  /\ pState' = [pState EXCEPT !.positionInPeriod = @ + 1]
  /\ absPosition' = absPosition + 1
  /\ UNCHANGED <<mParms, fParms, newFParms, fState, filters, callVars, histVars,
                 boundaryInCall, sound, mutated, samples, adoptedParms>>

NextImpulsive == ImpulsiveNewPeriod \/ ImpulsiveSample

SpecImpulsive == InitImpulsive /\ [][NextImpulsive]_vars

(* ---- generateSound for the frame of the demo parameters ---- *)
DemoSampleRate == 44100
\* the instance of the demo frame, distinct from the instances of Frames
DemoFrameId == Len(Frames) + 1

\* demoFrameParms in the units of the model.  Its agcRmsLevel is left out: it is
\* not a field of the FrameParms interface and no statement of the generator
\* reads it.
DemoFrame ==
  [ duration |-> DurationScale, f0 |-> 247, flutterLevel |-> 25, openPhaseRatio |-> 70,
    breathinessDb |-> -25, tiltDb |-> 0, gainDb |-> NaN,
    nasalFormantFreq |-> NaN, nasalFormantBw |-> NaN,
    oralFormantFreq |-> <<520, 1006, 2831, 3168, 4135, 5020>>,
    oralFormantBw |-> <<76, 102, 72, 102, 816, 596>>,
    cascadeEnabled |-> TRUE, cascadeVoicingDb |-> 0, cascadeAspirationDb |-> -25,
    cascadeAspirationMod |-> 50,
    nasalAntiformantFreq |-> NaN, nasalAntiformantBw |-> NaN,
    parallelEnabled |-> FALSE, parallelVoicingDb |-> 0, parallelAspirationDb |-> -25,
    parallelAspirationMod |-> 50, fricationDb |-> -30, fricationMod |-> 50,
    parallelBypassDb |-> -99, nasalFormantDb |-> NaN,
    oralFormantDb |-> <<0, -8, -15, -19, -30, -35>> ]

\* Math.round(fParms.duration * mParms.sampleRate) for the demo frame, the
\* duration taken in milliseconds to keep the product within 32 bits
DemoFrameLen(sampleRate) ==
  RoundDiv((DemoFrame.duration \div 1000) * sampleRate, DurationScale \div 1000)

\* k iterations of generateFrame's loop inside one period, for the filters and
\* for whether a sample other than 0 was written.  Once a sample computation
\* leaves the filters as they are, every further sample of the period is
\* computed from the same filters and gains and has the same value.
RECURSIVE DemoSamples(_, _, _, _, _)
DemoSamples(k, fs, ps, flts, nonzero) ==
  IF k = 0 THEN [filters |-> flts, nonzero |-> nonzero]
  ELSE LET rec == computeNextOutputSignalSample(DemoFrame, fs, ps, flts)
           next == SampleFilters(flts, DemoFrame)
       IN IF next = flts
            THEN [filters |-> flts, nonzero |-> nonzero \/ rec.value # 0]
            ELSE DemoSamples(k - 1, fs, [ps EXCEPT !.positionInPeriod = @ + 1], next,
                             nonzero \/ rec.value # 0)

\* the glottal source after k calls of this.glottalSource().  Once a call
\* changes nothing but the position counter of the source, the remaining calls
\* only advance that counter.
RECURSIVE DemoSource(_, _, _)
DemoSource(k, type, gs) ==
  IF k = 0 THEN gs
  ELSE LET next == glottalSourceNext(type, gs)
       IN IF next = gs THEN gs
          ELSE IF next = [gs EXCEPT !.positionInPeriod = @ + 1]
            THEN [gs EXCEPT !.positionInPeriod = @ + k]
          ELSE DemoSource(k - 1, type, next)

\* generateSound(mParms, [demoFrameParms]) up to its second loop
InitDemo ==
  /\ NewGenerator([sampleRate |-> DemoSampleRate, glottalSourceType |-> "impulsive"])
  /\ NoCall
  /\ sound = [active |-> TRUE, fParmsA |-> <<DemoFrameId>>, next |-> 1,
              outBufLen |-> DemoFrameLen(DemoSampleRate),
              outBufPos |-> 0, slices |-> <<>>, returned |-> FALSE]
  /\ unit = [kind |-> "demo", written |-> 0, nonzero |-> FALSE]

DemoSlice ==
  Subarray(sound.outBufLen, sound.outBufPos,
           sound.outBufPos + DemoFrameLen(mParms.sampleRate))

\* generator.generateFrame(fParms, frameBuf) enters its loop
DemoGenerateFrame ==
  /\ SoundCanCall
  /\ GenerateFrameEnter(SoundFrame, DemoSlice[2] - DemoSlice[1])
  /\ sound' = [sound EXCEPT !.slices = Append(@, DemoSlice)]
  /\ UNCHANGED unit

\* The iterations of generateFrame's loop from a period boundary to the end of
\* the period or of the buffer: startNewPeriod, then for each iteration the
\* sample, the write and the increments.  unit counts the samples written and
\* records whether one of them was not 0.
DemoPeriod ==
  /\ unit.kind = "demo"
  /\ pc = "loop"
  /\ LoopContinues(outPos, outLen)
  /\ NeedNewPeriod(pState)
  /\ LET adoption == IF newFParms # NoFrame
                       THEN startUsingNewFrameParameters(fState, filters, mParms.sampleRate,
                                                         DemoFrame)
                       ELSE [fState |-> fState, filters |-> filters, thrown |-> FALSE]
     IN /\ ~adoption.thrown
        /\ \E f0 \in performFrequencyModulation(DemoFrame.f0, DemoFrame.flutterLevel) :
             LET periodLength == PeriodLength(mParms.sampleRate, f0)
                 openPhaseLength == OpenPhaseLength(periodLength, DemoFrame.openPhaseRatio)
                 ps == [defined |-> TRUE, f0 |-> f0, periodLength |-> periodLength,
                        openPhaseLength |-> openPhaseLength, positionInPeriod |-> 0]
                 inPeriod == IF periodLength < 1 THEN 1 ELSE periodLength
                 k == IF inPeriod < outLen - outPos THEN inPeriod ELSE outLen - outPos
                 run == DemoSamples(k, adoption.fState, ps, adoption.filters, unit.nonzero)
             IN /\ pState' = [ps EXCEPT !.positionInPeriod = k]
                /\ gSource' = DemoSource(k, mParms.glottalSourceType,
                                 startGlottalSourcePeriod(mParms.glottalSourceType, gSource,
                                                          openPhaseLength))
                /\ filters' = run.filters
                /\ unit' = [unit EXCEPT !.written = @ + k, !.nonzero = run.nonzero]
                /\ outPos' = outPos + k
                /\ absPosition' = absPosition + k
        /\ fState' = adoption.fState
  /\ fParms' = AdoptedFrame
  /\ newFParms' = NoFrame
  /\ lastPeriodStart' = absPosition
  /\ boundaryInCall' = TRUE
  /\ displaced' = FALSE
  /\ UNCHANGED <<mParms, pc, callFParms, outLen, writeLog, err, absAtCall, sound, mutated,
                 samples, adoptedParms>>

\* generateFrame returns: outBufPos += frameLen, and the loop goes on
DemoFrameReturn ==
  /\ unit.kind = "demo"
  /\ LoopExit
  /\ sound' = [sound EXCEPT !.outBufPos = @ + DemoFrameLen(mParms.sampleRate),
                            !.next = @ + 1]
  /\ UNCHANGED unit

NextDemo ==
  \/ DemoGenerateFrame
  \/ DemoPeriod
  \/ DemoFrameReturn
  \/ SoundReturn

SpecDemo == InitDemo /\ [][NextDemo]_vars

(* ======================= claims ======================= *)

\* a step that is a generateFrame call: the call record changes while idle
CallStep == pc = "idle" /\ callVars' # callVars
\* the step enters the loop, i.e. the call did not fail with the reuse error
EntersLoop == pc = "idle" /\ pc' = "loop"
\* the pre-state of a loop iteration is at a period boundary
AtBoundary ==
  pc = "loop" /\ (~pState.defined \/ pState.positionInPeriod >= pState.periodLength)

\* C1: a generateFrame call that passes the same FrameParms instance as the call
\* before it fails with the reuse error, whatever the buffer lengths: it never
\* enters the loop.
C1_SameInstanceRejected ==
  [][(EntersLoop /\ callFParms # NoFrame) => callFParms' # callFParms]_vars

C3_ReuseErrorChangesNothing ==
  [][(CallStep /\ err' = "reused") =>
        /\ UNCHANGED genVars
        /\ writeLog' = <<>>
        /\ pc' = "idle"]_vars

\* C3 witness: the error was raised on a generator that has produced samples and
\* is inside a period, for a buffer with elements to write.
C3_Witness ==
  /\ err = "reused"
  /\ outLen > 0
  /\ writeLog = <<>>
  /\ absPosition > 0
  /\ pState.defined
  /\ pState.positionInPeriod < pState.periodLength

\* C4: the active frame, the gains of fState and the modes and coefficients of the
\* filters change only in a loop iteration at a period boundary (no period yet, or
\* positionInPeriod >= periodLength); every other step leaves them as they are.
C4_Settings(flt) == [flt EXCEPT !.y1 = 0, !.y2 = 0]
C4_FilterSettings(flts) ==
  [tiltFilter |-> C4_Settings(flts.tiltFilter),
   outputLpFilter |-> C4_Settings(flts.outputLpFilter),
   nasalFormantCasc |-> C4_Settings(flts.nasalFormantCasc),
   nasalAntiformantCasc |-> C4_Settings(flts.nasalAntiformantCasc),
   oralFormantCasc |-> [i \in 1 .. maxOralFormants |-> C4_Settings(flts.oralFormantCasc[i])],
   nasalFormantPar |-> C4_Settings(flts.nasalFormantPar),
   oralFormantPar |-> [i \in 1 .. maxOralFormants |-> C4_Settings(flts.oralFormantPar[i])]]
C4_ChangeOnlyAtBoundary ==
  [][(fParms' # fParms \/ fState' # fState
        \/ C4_FilterSettings(filters') # C4_FilterSettings(filters)) => AtBoundary]_vars

\* C4 witness: a sample has been computed inside a period during a call whose new
\* frame is still pending, the active frame being another one.
C4_Witness ==
  /\ pc = "loop"
  /\ outPos > 0
  /\ newFParms # NoFrame
  /\ fParms # NoFrame
  /\ Frames[newFParms] # Frames[fParms]
  /\ pState.defined
  /\ pState.positionInPeriod < pState.periodLength

C6_PeriodLengthAtLeastOne ==
  pState.defined =>
    /\ pState.periodLength >= 1
    /\ (IsNaN(pState.f0) \/ pState.f0 <= 0) =>
          (pState.periodLength = 1 /\ pState.openPhaseLength = 0)

\* C7: the period state is well-formed: 0 <= openPhaseLength <= periodLength,
\* positionInPeriod never exceeds periodLength between samples, a period starts
\* at position 0 and every sample advances the position by exactly 1 from a
\* position below periodLength.
C7_PeriodStateWellFormed ==
  /\ [](pState.defined =>
          /\ 0 <= pState.openPhaseLength
          /\ pState.openPhaseLength <= pState.periodLength
          /\ 0 <= pState.positionInPeriod
          /\ pState.positionInPeriod <= pState.periodLength)
  /\ [][absPosition' # absPosition =>
          /\ absPosition' = absPosition + 1
          /\ pState'.positionInPeriod >= 1
          /\ pState'.positionInPeriod <= pState'.periodLength
          /\ (pState'.positionInPeriod > 1 =>
                pState'.positionInPeriod = pState.positionInPeriod + 1)]_vars

\* C8: with flutterLevel = 0 and the same f0 > 0 in every frame, the periods
\* start exactly at the absolute sample indices k * round(sampleRate / f0): the
\* latest period start is the largest such index below absPosition.
C8_PeriodStartsAtMultiples ==
  (callFParms # NoFrame /\ absPosition > 0
     /\ Frames[callFParms].flutterLevel = 0 /\ Frames[callFParms].f0 > 0) =>
    LET multiples == {k * RoundDiv(mParms.sampleRate, Frames[callFParms].f0) : k \in 0 .. MaxAbs}
    IN /\ lastPeriodStart \in multiples
       /\ \A i \in multiples : i < absPosition => i <= lastPeriodStart

\* sum of round(duration_j * fs) over the first n frames of a list
RECURSIVE SumRounded(_, _, _)
SumRounded(sampleRate, list, n) ==
  IF n = 0 THEN 0
  ELSE SumRounded(sampleRate, list, n - 1)
         + ((2 * Frames[list[n]].duration * sampleRate + DurationScale) \div (2 * DurationScale))

\* C9: generateSound's buffer has sum_i round(duration_i * fs) elements and frame
\* i is generated into the slice [sum_{j<i}, sum_{j<=i}) of it; a sound that is
\* returned has one slice per frame, so the slices cover the buffer in order.
C9_SoundBufferAndSlices ==
  sound.active =>
    /\ sound.outBufLen = SumRounded(mParms.sampleRate, sound.fParmsA, Len(sound.fParmsA))
    /\ Len(sound.slices) <= Len(sound.fParmsA)
    /\ \A i \in 1 .. Len(sound.slices) :
         sound.slices[i] = <<SumRounded(mParms.sampleRate, sound.fParmsA, i - 1),
                             SumRounded(mParms.sampleRate, sound.fParmsA, i)>>
    /\ (pc = "loop" => outLen = sound.slices[Len(sound.slices)][2]
                                  - sound.slices[Len(sound.slices)][1])
    /\ sound.returned =>
         /\ Len(sound.slices) = Len(sound.fParmsA)
         /\ sound.outBufPos = sound.outBufLen

\* C9 witness: a sound of several frames, the first two of them with samples and
\* one whose duration is not a whole number of samples, has been returned.
C9_Witness ==
  /\ sound.returned
  /\ Len(sound.fParmsA) >= 2
  /\ sound.slices[1][2] > sound.slices[1][1]
  /\ sound.slices[2][2] > sound.slices[2][1]
  /\ \E i \in 1 .. Len(sound.fParmsA) :
       (Frames[sound.fParmsA[i]].duration * mParms.sampleRate) % DurationScale # 0

\* C10: a call that raises no error ends after writing the indices 0 .. len-1 once
\* each in increasing order and advancing absPosition by len: inside the loop the
\* call has written 0 .. outPos-1 and advanced by outPos <= len, a period always
\* has a frame to be scheduled from, every loop step either ends the call or
\* writes the next index, and the loop ends without error only at outPos = len.
C10_WritesEveryIndexOnce ==
  /\ [](pc = "loop" =>
          /\ outPos <= outLen
          /\ writeLog = [i \in 1 .. outPos |-> i - 1]
          /\ absPosition = absAtCall + outPos
          /\ AdoptedFrame # NoFrame)
  /\ [][pc = "loop" =>
          \/ pc' = "idle"
          \/ outPos' = outPos + 1 /\ outLen' = outLen /\ pc' = "loop"]_vars
  /\ [][(pc = "loop" /\ pc' = "idle" /\ err' = "none") =>
          (outPos = outLen /\ absPosition' = absAtCall + outLen)]_vars

\* C10 witness: a call with a buffer of at least two elements is at the end of
\* its loop, having started a period of length 1 on every sample.
C10_Witness ==
  /\ pc = "loop"
  /\ outPos = outLen
  /\ outLen >= 2
  /\ pState.periodLength = 1
  /\ lastPeriodStart = absPosition - 1
  /\ absAtCall > 0

\* the call in progress or just ended passed a frame with gainDb <= -99
C11_MutedCall ==
  /\ callFParms # NoFrame
  /\ ~IsNaN(Frames[callFParms].gainDb)
  /\ Frames[callFParms].gainDb <= -99

\* C11 as stated: every sample written by a generateFrame call whose frame has
\* gainDb <= -99 equals 0, whatever the other parameters and the earlier frames.
C11_SilentWhenMuted ==
  (C11_MutedCall /\ err = "none") =>
    \A i \in 1 .. Len(samples) : samples[i].value = 0

\* C11 amended: every sample such a call writes from its first period boundary
\* on (where the frame is adopted) is the signal times a gain of 0, which is 0.
\* The samples it writes before that boundary carry the gain of the frame that
\* was active when the call was entered.
C11_SilentFromFirstBoundary ==
  [][(pc = "loop" /\ C11_MutedCall /\ Len(samples') = Len(samples) + 1 /\ boundaryInCall')
       => /\ samples'[Len(samples')].gainLin = 0
          /\ samples'[Len(samples')].value = 0]_vars

\* C11 witness: a call with a muted frame entered inside a period of a frame with
\* gain 1 has written computed samples up to the boundary and a 0 after it.
C11_Witness ==
  /\ pc = "loop"
  /\ C11_MutedCall
  /\ boundaryInCall
  /\ Len(samples) >= 2
  /\ samples[1].value = Live
  /\ samples[Len(samples)].value = 0
  /\ fParms = callFParms

\* C12: dbToLin(d) is 0 exactly when d <= -99 or d is NaN and is strictly positive
\* for every other d; dbToLin(0) = 1, dbToLin(-20) = 0.1, dbToLin(-99) = 0 and
\* dbToLin(NaN) = 0.
C12_DbToLinZeroAndPositive ==
  (unit.kind = "dbToLin" /\ unit.applied) =>
    /\ unit.result = 0 <=> (IsNaN(unit.arg) \/ unit.arg <= -99)
    /\ (~IsNaN(unit.arg) /\ unit.arg > -99) => unit.result > 0
    /\ unit.arg = 0 => unit.result = LinScale
    /\ unit.arg = -20 => 10 * unit.result = LinScale
    /\ unit.arg = -99 => unit.result = 0
    /\ IsNaN(unit.arg) => unit.result = 0

\* C12 witness: dbToLin was applied to the smallest value above the threshold
\* and gave a positive result.
C12_Witness ==
  /\ unit.kind = "dbToLin"
  /\ unit.applied
  /\ unit.arg = -98
  /\ unit.result > 0

\* a step of the filter on its own that is a call of step
FilterStepped == unit.kind = "filter" /\ unit' # unit /\ unit'.op = "step"
\* a step of the filter on its own that is a call of a validating configurator
FilterConfigured ==
  unit.kind = "filter" /\ unit' # unit /\ unit'.op \in {"set", "adjustPeakGain"}

\* C13: a freshly constructed filter and a filter after setPassthrough are in
\* passthrough mode, and step(x) of a Resonator, AntiResonator or LpFilter1 in
\* passthrough mode returns x and leaves the filter, its delay line included, as
\* it was.
C13_PassthroughIsIdentity ==
  /\ [](unit.kind = "filter" /\ unit.op \in {"new", "setPassthrough"}
          => unit.flt.passthrough /\ ~unit.flt.muted)
  /\ [][(FilterStepped /\ unit.flt.passthrough) =>
          /\ unit'.y = unit'.x
          /\ unit'.flt = unit.flt]_vars

\* C13 witness: a filter that had been configured is in passthrough mode and has
\* returned a non-zero input unchanged.
C13_Witness ==
  /\ unit.kind = "filter"
  /\ unit.op = "step"
  /\ unit.flt.passthrough
  /\ unit.flt.gainKind # "unset"
  /\ unit.x # 0
  /\ unit.y = unit.x

\* C14: after any sequence of set / setPassthrough / setMute / step calls the
\* passthrough and muted flags are never both true, a muted filter returns 0 for
\* every input, setPassthrough and setMute leave all delay values 0, and the
\* delay values are 0 for as long as the filter is in passthrough or muted mode.
C14_ModesAndZeroedDelays ==
  /\ [](unit.kind = "filter" =>
          /\ ~(unit.flt.passthrough /\ unit.flt.muted)
          /\ (unit.flt.passthrough \/ unit.flt.muted) =>
                (unit.flt.y1 = 0 /\ unit.flt.y2 = 0))
  /\ [][(FilterStepped /\ unit.flt.muted) => unit'.y = 0]_vars
  /\ [][(unit.kind = "filter" /\ unit' # unit /\ unit'.op \in {"setPassthrough", "setMute"}) =>
          /\ unit'.flt.y1 = 0 /\ unit'.flt.y2 = 0
          /\ unit'.flt.passthrough = (unit'.op = "setPassthrough")
          /\ unit'.flt.muted = (unit'.op = "setMute")]_vars

\* C14 witness: a muted filter holding coefficients has returned 0 for a
\* non-zero input, its delay line being 0.
C14_Witness ==
  /\ unit.kind = "filter"
  /\ unit.op = "step"
  /\ unit.flt.muted
  /\ unit.flt.gainKind # "unset"
  /\ unit.x # 0
  /\ unit.y = 0
  /\ unit.flt.y1 = 0

\* the arguments the claim calls invalid, for the configurator op of a filter of
\* the given class: args is <<f, g>> (LpFilter1.set), <<f, bw, dcGain>>
\* (Resonator.set), <<f, bw>> (AntiResonator.set) or <<peakGain>> (adjustPeakGain)
C15_NonFinite(v) == v = NaN \/ v = Infinity
C15_Invalid(class, sampleRate, op, args) ==
  IF op = "adjustPeakGain" THEN C15_NonFinite(args[1]) \/ args[1] <= 0
  ELSE IF class = "LpFilter1"
    THEN \/ C15_NonFinite(args[1]) \/ C15_NonFinite(args[2])
         \/ args[1] <= 0 \/ 2 * args[1] >= sampleRate
         \/ args[2] <= 0 \/ args[2] >= LinScale
  ELSE IF class = "Resonator"
    THEN \/ C15_NonFinite(args[1]) \/ C15_NonFinite(args[2]) \/ C15_NonFinite(args[3])
         \/ args[1] < 0 \/ 2 * args[1] >= sampleRate
         \/ args[2] <= 0 \/ args[3] <= 0
  ELSE \/ C15_NonFinite(args[1]) \/ C15_NonFinite(args[2])
       \/ args[1] <= 0 \/ 2 * args[1] >= sampleRate
       \/ args[2] <= 0
\* the arguments a configurator call that returned has stored in the filter
C15_StoredArgs(class, op, flt) ==
  IF op = "adjustPeakGain" THEN <<flt.gain>>
  ELSE IF class = "LpFilter1" THEN <<flt.f, flt.gain>>
  ELSE IF class = "Resonator" THEN <<flt.f, flt.bw, flt.gain>>
  ELSE <<flt.f, flt.bw>>

\* C15: set of an LpFilter1, Resonator or AntiResonator and adjustPeakGain raise
\* an error exactly for invalid arguments (f outside (0, fs/2), for the Resonator
\* outside [0, fs/2); g outside (0, 1); bandwidth, DC gain or peak gain <= 0; any
\* non-finite argument), and a call that raises leaves the filter's coefficients,
\* mode flags and delay line as they were before the call.
C15_InvalidArgsLeaveFilterUnchanged ==
  [][FilterConfigured =>
       IF unit'.thrown
         THEN /\ unit'.flt = unit.flt
              /\ C15_Invalid(unit.class, mParms.sampleRate, unit'.op, unit'.args)
         ELSE ~C15_Invalid(unit.class, mParms.sampleRate, unit'.op,
                           C15_StoredArgs(unit.class, unit'.op, unit'.flt))]_vars

\* C15 witness: an active Resonator whose delay line holds computed values has
\* rejected a set call with an infinite bandwidth.
C15_Witness ==
  /\ unit.kind = "filter"
  /\ unit.class = "Resonator"
  /\ unit.op = "set"
  /\ unit.thrown
  /\ unit.args[2] = Infinity
  /\ IsFinite(unit.args[1]) /\ unit.args[1] > 0 /\ 2 * unit.args[1] < mParms.sampleRate
  /\ ~unit.flt.passthrough /\ ~unit.flt.muted
  /\ unit.flt.y1 = Live /\ unit.flt.y2 = Live

\* C16: when the adoption of a frame throws at the period boundary in front of
\* index k = outPos of the call, the call ends with the filter error, nothing is
\* written at an index >= k, the k samples written at 0 .. k-1 are kept, and
\* absPosition is k above its value at the entry of the call.
C16_AdoptionErrorKeepsPrefix ==
  [][(pc = "loop" /\ LoopContinues(outPos, outLen) /\ NeedNewPeriod(pState) /\ Adoption.thrown)
       => /\ pc' = "idle"
          /\ err' = "filter"
          /\ writeLog = [i \in 1 .. outPos |-> i - 1]
          /\ writeLog' = writeLog
          /\ Len(samples) = outPos
          /\ samples' = samples
          /\ outPos' = outPos
          /\ absPosition' = absAtCall + outPos]_vars

\* C16 witness: a call entered inside a period has ended with the filter error at
\* its first boundary, after it wrote computed samples and before its buffer was full.
C16_Witness ==
  /\ pc = "idle"
  /\ err = "filter"
  /\ outPos >= 2
  /\ outPos < outLen
  /\ Len(samples) = outPos
  /\ samples[1].value = Live
  /\ absAtCall > 0
  /\ absPosition = absAtCall + outPos

\* the value a resonator of the parallel branch returns for x when it is in
\* passthrough mode (x) or muted (0)
C17_Out(flt, x) == IF flt.muted THEN 0 ELSE x
\* source2: the first difference of source plus the frication noise
C17_Source2 == (unit.source - unit.x1) + unit.fricationNoise

\* C17 as stated: the parallel output is nasal(source) + oral[0](source)
\* + sum over i = 1..5 of (-1)^(i+1) * oral[i](source2) + bypass * source2: the
\* resonators at indices 1, 3, 5 enter with sign +1, those at 2, 4 with sign -1.
C17_ParallelSumAsStated ==
  (unit.kind = "parallel" /\ unit.applied) =>
    unit.v = C17_Out(unit.nasalFormantPar, unit.source)
             + C17_Out(unit.oralFormantPar[1], unit.source)
             + C17_Out(unit.oralFormantPar[2], C17_Source2)
             - C17_Out(unit.oralFormantPar[3], C17_Source2)
             + C17_Out(unit.oralFormantPar[4], C17_Source2)
             - C17_Out(unit.oralFormantPar[5], C17_Source2)
             + C17_Out(unit.oralFormantPar[6], C17_Source2)
             + (unit.parallelBypassLin \div LinScale) * C17_Source2

\* C17 amended: the sign of oral[i] is (-1)^i: the resonators at indices 1, 3, 5
\* (F2, F4, F6) enter with sign -1 and those at indices 2, 4 (F3, F5) with +1.
C17_ParallelSumAlternating ==
  (unit.kind = "parallel" /\ unit.applied) =>
    unit.v = C17_Out(unit.nasalFormantPar, unit.source)
             + C17_Out(unit.oralFormantPar[1], unit.source)
             - C17_Out(unit.oralFormantPar[2], C17_Source2)
             + C17_Out(unit.oralFormantPar[3], C17_Source2)
             - C17_Out(unit.oralFormantPar[4], C17_Source2)
             + C17_Out(unit.oralFormantPar[5], C17_Source2)
             - C17_Out(unit.oralFormantPar[6], C17_Source2)
             + (unit.parallelBypassLin \div LinScale) * C17_Source2

\* C17 witness: the sum was computed with F2 as the only resonator that returns
\* its input, for a source2 that differs from the source and is not 0.
C17_Witness ==
  /\ unit.kind = "parallel"
  /\ unit.applied
  /\ C17_Source2 # 0
  /\ C17_Source2 # unit.source
  /\ unit.nasalFormantPar.muted
  /\ \A i \in 1 .. maxOralFormants : unit.oralFormantPar[i].muted <=> i # 2
  /\ unit.parallelBypassLin = 0
  /\ unit.v = - C17_Source2

\* the record the active frame held when it was adopted, and the record it holds now
C18_Snapshot == Mutate(Frames[fParms'], adoptedParms')
C18_Object == Mutate(Frames[fParms'], Assigned(fParms', mutated'))
C18_SampleWritten == pc = "loop" /\ Len(samples') = Len(samples) + 1
C18_PeriodStarted == pc = "loop" /\ lastPeriodStart' = absPosition
\* the aspiration modulation factor of the sample just written, from the record rec
C18_AspirationMod(rec) ==
  IF rec.cascadeEnabled /\ 2 * (pState'.positionInPeriod - 1) >= pState'.periodLength
    THEN rec.cascadeAspirationMod ELSE 0

\* C18 as stated: once a frame is adopted no sample and no period depends on the
\* FrameParms object: every sample is computed with the branch switches, and every
\* period scheduled from the f0, flutterLevel and openPhaseRatio, that the object
\* held when it was adopted, whatever the caller assigned to it afterwards.
C18_IndependentOfFrameObject ==
  [][/\ C18_SampleWritten =>
          /\ samples'[Len(samples')].cascadeEnabled = C18_Snapshot.cascadeEnabled
          /\ samples'[Len(samples')].parallelEnabled = C18_Snapshot.parallelEnabled
          /\ samples'[Len(samples')].cascadeAspirationMod = C18_AspirationMod(C18_Snapshot)
     /\ C18_PeriodStarted =>
          /\ pState'.f0 \in performFrequencyModulation(C18_Snapshot.f0,
                                                       C18_Snapshot.flutterLevel)
          /\ pState'.openPhaseLength =
               OpenPhaseLength(pState'.periodLength, C18_Snapshot.openPhaseRatio)]_vars

\* C18 amended: the gains are copied at the adoption and every period is
\* scheduled from the values the object held at its adoption (an assignment by
\* the caller can only be followed by a boundary that adopts another frame), but
\* every sample is computed with the branch switches and the modulation factor
\* the object holds when the sample is computed; an assignment by itself changes nothing in the generator.
C18_GainsCopiedSwitchesRead ==
  [][/\ C18_SampleWritten =>
          /\ samples'[Len(samples')].gainLin = dbToLin(C18_Snapshot.gainDb)
          /\ fState'.gainLin = dbToLin(C18_Snapshot.gainDb)
          /\ samples'[Len(samples')].cascadeEnabled = C18_Object.cascadeEnabled
          /\ samples'[Len(samples')].parallelEnabled = C18_Object.parallelEnabled
          /\ samples'[Len(samples')].cascadeAspirationMod = C18_AspirationMod(C18_Object)
     /\ C18_PeriodStarted =>
          /\ pState'.f0 \in performFrequencyModulation(C18_Snapshot.f0,
                                                       C18_Snapshot.flutterLevel)
          /\ pState'.openPhaseLength =
               OpenPhaseLength(pState'.periodLength, C18_Snapshot.openPhaseRatio)
     /\ mutated' # mutated => UNCHANGED <<genVars, samples>>]_vars

\* C18 witness: the caller assigned f0, cascadeEnabled and gainDb of the active
\* frame after its adoption, and a later call has written a sample inside that
\* frame's period: with the cascade branch off and the gain of the adoption.
C18_Witness ==
  /\ pc = "loop"
  /\ fParms = 1
  /\ callFParms = 3
  /\ adoptedParms = {}
  /\ Assigned(1, mutated) = MutableFields
  /\ Len(samples) >= 1
  /\ ~samples[Len(samples)].cascadeEnabled
  /\ samples[Len(samples)].gainLin = LinScale
  /\ samples[Len(samples)].value = Live
  /\ pState.f0 = BaseFrame.f0 * F0Scale

\* The generator after one generateFrame call of n samples with a frame holding
\* the record fp, on a new generator: the frame is adopted at the first sample,
\* no later boundary of the call has a pending frame.  sample is the n-th sample.
RECURSIVE C19_SingleCall(_, _)
C19_SingleCall(fp, n) ==
  IF n = 0
    THEN [fState |-> UndefinedFState, pState |-> UndefinedPState,
          filters |-> NewFilters(mParms.sampleRate),
          gSource |-> NewGlottalSource(mParms.glottalSourceType),
          sample |-> <<>>]
    ELSE LET s == C19_SingleCall(fp, n - 1)
             adoption ==
               IF n = 1
                 THEN startUsingNewFrameParameters(s.fState, s.filters, mParms.sampleRate, fp)
                 ELSE [fState |-> s.fState, filters |-> s.filters, thrown |-> FALSE]
             f0 == CHOOSE f \in performFrequencyModulation(fp.f0, fp.flutterLevel) : TRUE
             periodLength == PeriodLength(mParms.sampleRate, f0)
             openPhaseLength == OpenPhaseLength(periodLength, fp.openPhaseRatio)
             ps == IF NeedNewPeriod(s.pState)
                     THEN [defined |-> TRUE, f0 |-> f0, periodLength |-> periodLength,
                           openPhaseLength |-> openPhaseLength, positionInPeriod |-> 0]
                     ELSE s.pState
             gs == IF NeedNewPeriod(s.pState)
                     THEN startGlottalSourcePeriod(mParms.glottalSourceType, s.gSource,
                                                   openPhaseLength)
                     ELSE s.gSource
         IN [fState |-> adoption.fState,
             pState |-> [ps EXCEPT !.positionInPeriod = @ + 1],
             filters |-> SampleFilters(adoption.filters, fp),
             gSource |-> glottalSourceNext(mParms.glottalSourceType, gs),
             sample |-> computeNextOutputSignalSample(fp, adoption.fState, ps, adoption.filters)]

\* every call so far passed an instance of one flutter-free record, and samples
\* were generated (the adoption of the record does not fail)
C19_ValueEqualCalls ==
  /\ callFParms # NoFrame
  /\ fParms # NoFrame
  /\ pState.defined
  /\ Frames[fParms] = Frames[callFParms]
  /\ ~IsNaN(Frames[callFParms].flutterLevel)
  /\ Frames[callFParms].flutterLevel <= 0

\* C19: generating the n = absPosition samples in any number of calls, each with
\* an instance of the same record, leaves the period state (positionInPeriod,
\* periodLength, openPhaseLength), the gains, the filters (modes, coefficients
\* and delay lines) and the glottal source as one call of n samples does, and
\* the samples written by the current call are those the single call writes at
\* the same absolute positions.
C19_StateCarriedAcrossCalls ==
  C19_ValueEqualCalls =>
    LET single == C19_SingleCall(Frames[callFParms], absPosition)
    IN /\ pState = single.pState
       /\ fState = single.fState
       /\ filters = single.filters
       /\ gSource = single.gSource
       /\ \A i \in 1 .. Len(samples) :
            samples[i] = C19_SingleCall(Frames[callFParms], absAtCall + i).sample

\* C19 witness: the second of two value-equal instances has been adopted at a
\* period boundary inside its call, after samples of both calls, and the
\* resonators' delay lines hold computed values.
C19_Witness ==
  /\ pc = "loop"
  /\ C19_ValueEqualCalls
  /\ fParms = callFParms
  /\ fParms = 2
  /\ absAtCall > 0
  /\ lastPeriodStart > absAtCall
  /\ absPosition > lastPeriodStart + 1
  /\ filters.oralFormantCasc[1].y1 = Live
  /\ filters.oralFormantCasc[1].y2 = Live

\* C20: an iteration at a period boundary with a pending frame that goes on to
\* write a sample has made the pending frame the active one and emptied the
\* pending slot; the period it started has the modulated f0, periodLength and
\* openPhaseLength of that frame; the gains are those of that frame, the tilt
\* filter and the cascade formants are set from it, and the sample written was
\* computed with that gain and that frame's branch switches.
C20_AdoptedBeforePeriodScheduled ==
  [][(pc = "loop" /\ NeedNewPeriod(pState) /\ newFParms # NoFrame /\ outPos' = outPos + 1)
       => LET fp == Frames[newFParms]
              sample == samples'[Len(samples')]
          IN /\ fParms' = newFParms
             /\ newFParms' = NoFrame
             /\ pState'.f0 \in performFrequencyModulation(fp.f0, fp.flutterLevel)
             /\ pState'.periodLength = PeriodLength(mParms.sampleRate, pState'.f0)
             /\ pState'.openPhaseLength =
                  OpenPhaseLength(pState'.periodLength, fp.openPhaseRatio)
             /\ pState'.positionInPeriod = 1
             /\ fState'.gainLin = dbToLin(fp.gainDb)
             /\ fState'.breathinessLin = dbToLin(fp.breathinessDb)
             /\ fState'.cascadeVoicingLin = dbToLin(fp.cascadeVoicingDb)
             /\ fState'.parallelBypassLin = dbToLin(fp.parallelBypassDb)
             /\ filters'.tiltFilter.passthrough = ~Truthy(fp.tiltDb)
             /\ \A i \in 1 .. maxOralFormants :
                  IF i <= Len(fp.oralFormantFreq)
                    THEN /\ ~filters'.oralFormantCasc[i].passthrough
                         /\ filters'.oralFormantCasc[i].f = fp.oralFormantFreq[i]
                         /\ filters'.oralFormantCasc[i].bw = fp.oralFormantBw[i]
                    ELSE filters'.oralFormantCasc[i].passthrough
             /\ Len(samples') = Len(samples) + 1
             /\ sample.gainLin = dbToLin(fp.gainDb)
             /\ sample.cascadeEnabled = fp.cascadeEnabled
             /\ sample.parallelEnabled = fp.parallelEnabled]_vars

\* C20 witness: a call with the unvoiced, tilted, parallel-branch frame entered
\* inside a period of a voiced cascade frame has passed the boundary: the first
\* sample of the call is the old frame's, the latest one the new frame's, in a
\* period of length 1 with the tilt filter active.
C20_Witness ==
  /\ pc = "loop"
  /\ fParms = callFParms
  /\ newFParms = NoFrame
  /\ lastPeriodStart = absPosition - 1
  /\ lastPeriodStart > absAtCall
  /\ Len(samples) >= 2
  /\ samples[1].cascadeEnabled
  /\ ~samples[Len(samples)].cascadeEnabled
  /\ samples[Len(samples)].parallelEnabled
  /\ pState.periodLength = 1
  /\ ~filters.tiltFilter.passthrough

\* the binder has been applied to the frame unit.fp
BinderApplied == unit.kind = "binder" /\ unit.applied
\* the frequency and bandwidth pairs of the cascade filters in the frame fp, with
\* the filter each pair belongs to: nasal resonator, nasal anti-resonator and
\* the oral resonators 0 .. 5
C21_Cascade(fp, flts) ==
  {[f |-> fp.nasalFormantFreq, bw |-> fp.nasalFormantBw, flt |-> flts.nasalFormantCasc],
   [f |-> fp.nasalAntiformantFreq, bw |-> fp.nasalAntiformantBw,
    flt |-> flts.nasalAntiformantCasc]}
  \cup {[f |-> ArrayGet(fp.oralFormantFreq, i), bw |-> ArrayGet(fp.oralFormantBw, i),
         flt |-> flts.oralFormantCasc[i + 1]] : i \in 0 .. maxOralFormants - 1}
C21_Configured(c) ==
  ~c.flt.passthrough /\ ~c.flt.muted /\ c.flt.f = c.f /\ c.flt.bw = c.bw
C21_InPassthrough(c) ==
  c.flt.passthrough /\ ~c.flt.muted /\ c.flt.y1 = 0 /\ c.flt.y2 = 0

\* C21 as stated: after the adoption every cascade resonator and the nasal
\* anti-resonator is configured if its frequency and bandwidth are truthy and
\* finite, and in passthrough mode in every other case, Infinity included.
C21_CascadeConfiguredIfFinite ==
  (BinderApplied /\ unit.group # "tilt") =>
    \A c \in C21_Cascade(unit.fp, filters) :
      IF Truthy(c.f) /\ Truthy(c.bw) /\ IsFinite(c.f) /\ IsFinite(c.bw)
        THEN C21_Configured(c)
        ELSE C21_InPassthrough(c)

\* C21 amended: the test is truthiness alone.  An adoption that returns has
\* configured every cascade filter whose frequency and bandwidth are both truthy
\* (neither 0 nor NaN, an index beyond the array end counting as NaN), with
\* finite values, and has put every other one in passthrough mode; a truthy
\* value that is not finite makes the adoption throw.
C21_CascadeConfiguredIfTruthy ==
  BinderApplied =>
    /\ ~unit.thrown =>
         \A c \in C21_Cascade(unit.fp, filters) :
           IF Truthy(c.f) /\ Truthy(c.bw)
             THEN C21_Configured(c) /\ IsFinite(c.f) /\ IsFinite(c.bw)
             ELSE C21_InPassthrough(c)
    /\ (\E c \in C21_Cascade(unit.fp, filters) :
          Truthy(c.f) /\ Truthy(c.bw) /\ (~IsFinite(c.f) \/ ~IsFinite(c.bw)))
         => unit.thrown

\* C21 witness: a frame whose oral formant arrays have one element was adopted
\* without error on a generator whose second cascade resonator had been
\* configured: that resonator is in passthrough mode, the first one configured.
C21_Witness ==
  /\ BinderApplied
  /\ ~unit.thrown
  /\ unit.group = "oral"
  /\ Len(unit.fp.oralFormantFreq) = 1
  /\ filters.oralFormantCasc[1].f = 520 /\ ~filters.oralFormantCasc[1].passthrough
  /\ filters.oralFormantCasc[2].f = 1006 /\ filters.oralFormantCasc[2].passthrough

\* the frequency, bandwidth and level of the parallel resonators in the frame
\* fp, with the resonator each belongs to: nasal and oral 0 .. 5
C22_Parallel(fp, flts) ==
  {[f |-> fp.nasalFormantFreq, bw |-> fp.nasalFormantBw, db |-> fp.nasalFormantDb,
    flt |-> flts.nasalFormantPar]}
  \cup {[f |-> ArrayGet(fp.oralFormantFreq, i), bw |-> ArrayGet(fp.oralFormantBw, i),
         db |-> ArrayGet(fp.oralFormantDb, i), flt |-> flts.oralFormantPar[i + 1]]
          : i \in 0 .. maxOralFormants - 1}
\* frequency, bandwidth or level disabled: NaN, 0, or a level <= -99 dB
C22_Disabled(c) ==
  \/ IsNaN(c.f) \/ c.f = 0
  \/ IsNaN(c.bw) \/ c.bw = 0
  \/ IsNaN(c.db) \/ c.db <= -99
\* the parallel sum without the nasal term, for oral resonators that pass their input
C22_SumWithoutNasal(source, x1) ==
  FilterOut(NewFilter, source)
    + OralFormantParSum([i \in 1 .. maxOralFormants |-> NewFilter], source - x1, 1)
    + (LinScale * (source - x1)) \div LinScale

\* C22: after the adoption a parallel resonator whose frequency, bandwidth or
\* level is disabled is muted: it returns 0 for every input and its state stays
\* as it is; with a disabled nasal formant the parallel sum is the sum without
\* the nasal term.
C22_DisabledParallelMuted ==
  (BinderApplied /\ ~unit.thrown) =>
    /\ \A c \in C22_Parallel(unit.fp, filters) :
         C22_Disabled(c) =>
           /\ c.flt.muted /\ ~c.flt.passthrough
           /\ \A x \in SampleInputs :
                FilterOut(c.flt, x) = 0 /\ ResonatorStep(c.flt, x) = c.flt
    /\ (\E c \in C22_Parallel(unit.fp, filters) :
          c.flt = filters.nasalFormantPar /\ c.db = unit.fp.nasalFormantDb /\ C22_Disabled(c))
         => \A source \in SampleInputs, x1 \in SampleInputs :
              computeParallelBranch(source, x1, 0, LinScale, filters.nasalFormantPar,
                                    [i \in 1 .. maxOralFormants |-> NewFilter])
                = C22_SumWithoutNasal(source, x1)

\* C22 witness: a frame with nasalFormantDb = -99 and a usable nasal frequency
\* and bandwidth was adopted on a generator whose parallel nasal resonator was
\* active: the resonator is muted, the cascade nasal resonator is configured.
C22_Witness ==
  /\ BinderApplied
  /\ ~unit.thrown
  /\ unit.group = "nasal"
  /\ unit.fp.nasalFormantDb = -99
  /\ unit.fp.nasalFormantFreq = 500
  /\ unit.fp.nasalFormantBw = 100
  /\ filters.nasalFormantPar.muted
  /\ filters.nasalFormantPar.f = 300
  /\ filters.nasalFormantPar.gainKind = "peak"
  /\ ~filters.nasalFormantCasc.passthrough
  /\ filters.nasalFormantCasc.f = 500

C23_TiltActive(flt, tiltDb) ==
  /\ ~flt.passthrough /\ ~flt.muted
  /\ flt.f = TiltFreq
  /\ flt.gainKind = "lp"
  /\ flt.gain = dbToLin(-tiltDb)

\* C23: after the adoption the tilt filter is in passthrough mode if
\* tiltDb is 0 or NaN; for every other tiltDb the adoption succeeds and the tilt
\* filter is active, an LpFilter1 at 3000 Hz with gain dbToLin(-tiltDb).
C23_TiltSetForEveryTiltDb ==
  (BinderApplied /\ unit.group = "tilt") =>
    IF IsNaN(unit.fp.tiltDb) \/ unit.fp.tiltDb = 0
      THEN filters.tiltFilter.passthrough
      ELSE ~unit.thrown /\ C23_TiltActive(filters.tiltFilter, unit.fp.tiltDb)

(* ---- C24: noise modulation in the second half of the period ---- *)
\* the sample an iteration has written, the position it was computed at and the
\* factor (1 - mod) the claim gives a noise source of an enabled branch there
C24_SampleWritten == pc = "loop" /\ Len(samples') = Len(samples) + 1
C24_Position == pState'.positionInPeriod - 1
C24_Mod(enabled, mod) ==
  IF enabled /\ 2 * C24_Position >= pState'.periodLength THEN mod ELSE 0

\* C24: the cascade aspiration, the parallel aspiration and the frication noise
\* of a sample are scaled by (1 - mod) exactly when the sample's position p in
\* its period of length N has 2p >= N, and by 1 otherwise, with no rounding of
\* N / 2; the only sample of an unvoiced period (N = 1, p = 0) is not modulated.
C24_ModulatedInSecondHalf ==
  [][C24_SampleWritten =>
       LET rec == samples'[Len(samples')]
           fp == Frames[fParms']
       IN /\ rec.cascadeAspirationMod = C24_Mod(fp.cascadeEnabled, fp.cascadeAspirationMod)
          /\ rec.parallelAspirationMod =
               C24_Mod(fp.parallelEnabled, fp.parallelAspirationMod)
          /\ rec.fricationMod = C24_Mod(fp.parallelEnabled, fp.fricationMod)
          /\ pState'.periodLength = 1 =>
               /\ rec.cascadeAspirationMod = 0
               /\ rec.parallelAspirationMod = 0
               /\ rec.fricationMod = 0]_vars

\* C24 witness: in a period of 5 samples the sample at position 2 was written
\* unmodulated and the sample at position 3 modulated.
C24_Witness ==
  /\ pc = "loop"
  /\ Len(samples) >= 2
  /\ pState.defined
  /\ pState.periodLength = 5
  /\ pState.positionInPeriod = 4
  /\ Frames[fParms].cascadeEnabled
  /\ samples[Len(samples) - 1].cascadeAspirationMod = 0
  /\ samples[Len(samples)].cascadeAspirationMod = 50

(* ---- C25: breathiness within the open phase ---- *)
C25_SampleWritten == pc = "loop" /\ Len(samples') = Len(samples) + 1
C25_Position == pState'.positionInPeriod - 1

\* C25: the breathiness noise is added to the voice of exactly the samples whose
\* position in the period is below the open phase length of the period, and of
\* no sample of a period whose open phase length is 0.
C25_BreathinessInOpenPhase ==
  [][C25_SampleWritten =>
       /\ samples'[Len(samples')].breathinessAdded = (C25_Position < pState'.openPhaseLength)
       /\ pState'.openPhaseLength = 0 => ~samples'[Len(samples')].breathinessAdded]_vars

\* C25 witness: in a period of 4 samples with an open phase of 3 the sample at
\* position 2 was written with breathiness and the sample at position 3 without.
C25_Witness ==
  /\ pc = "loop"
  /\ Len(samples) >= 2
  /\ pState.defined
  /\ pState.periodLength = 4
  /\ pState.openPhaseLength = 3
  /\ pState.positionInPeriod = 4
  /\ samples[Len(samples) - 1].breathinessAdded
  /\ ~samples[Len(samples)].breathinessAdded

(* ---- C26: the doublet of the impulsive source ---- *)
RECURSIVE C26_Sum(_)
C26_Sum(seq) == IF seq = <<>> THEN 0 ELSE Head(seq) + C26_Sum(Tail(seq))

\* the period of the generator is complete: its last sample has been computed
C26_PeriodComplete ==
  /\ unit.kind = "impulsive"
  /\ pState.defined
  /\ pState.positionInPeriod >= pState.periodLength

\* C26: over every complete period with an open phase length above 0 the
\* resonator of the impulsive source is driven by +1 at position 1, by -1 at
\* position 2 and by 0 at every other position, so that the excitation sums to 0,
\* whatever the period length; over a period with open phase length 0 the
\* source emits 0 at every sample.
C26_CompleteDoublet ==
  C26_PeriodComplete =>
    IF pState.openPhaseLength > 0
      THEN /\ unit.pulses = [i \in 1 .. Len(unit.pulses) |->
                               IF i = 2 THEN 1 ELSE IF i = 3 THEN -1 ELSE 0]
           /\ Len(unit.pulses) >= 3
           /\ C26_Sum(unit.pulses) = 0
      ELSE \A i \in 1 .. Len(unit.pulses) : unit.pulses[i] = 0

(* ---- C28: the active frame and the pending slot ---- *)
\* an iteration of the loop that starts a period, an iteration that has written a
\* sample, and the start of a generateFrame call
C28_Boundary == pc = "loop" /\ LoopContinues(outPos, outLen) /\ NeedNewPeriod(pState)
C28_SampleWritten == pc = "loop" /\ Len(samples') = Len(samples) + 1
C28_CallStarts == pc = "idle" /\ callVars' # callVars

\* at every computed sample the active frame is defined and is the frame of the
\* call during which the latest period boundary occurred: a boundary makes the
\* frame of the current call the active one, and nothing else changes it
C28_ActiveFrame ==
  /\ C28_SampleWritten => fParms' # NoFrame
  /\ C28_Boundary => fParms' = callFParms
  /\ ~C28_Boundary => fParms' = fParms

\* the pending slot is filled by the start of a call only and is empty from the
\* first period boundary on
C28_PendingSlot ==
  /\ (newFParms' # NoFrame /\ newFParms' # newFParms) => C28_CallStarts
  /\ C28_Boundary => newFParms' = NoFrame

\* C28: at every computed sample the active frame is defined and is the frame of
\* the generateFrame call during which the most recent period boundary occurred;
\* the pending slot is non-empty only between the start of a call and the first
\* period boundary inside or after it; and a frame still pending when the next
\* generateFrame call starts is replaced by that call's frame.
C28_ActiveAndPendingFrames ==
  [][/\ C28_ActiveFrame
     /\ C28_PendingSlot
     /\ (C28_CallStarts /\ newFParms # NoFrame) => newFParms' = callFParms']_vars

(* ---- C29: a failed adoption is not rolled back ---- *)
\* the preceding generateFrame call ended with the error of a filter configurator
C29_AdoptionFailed == pc = "idle" /\ err = "filter"
C29_CallStarts == pc = "idle" /\ callVars' # callVars

\* C29: after a filter configurator rejected during the adoption of frame F, F is
\* the active frame and the pending slot is empty; a following generateFrame call
\* with the same instance F fails with the reuse error and changes nothing of the
\* generator, while a call with a different instance enters the loop with its
\* frame pending and a period boundary due, so that its first iteration, like
\* every iteration at a boundary, makes the frame of the call the active one.
C29_FailedAdoptionKept ==
  [][/\ C29_AdoptionFailed' =>
          /\ fParms' = callFParms'
          /\ fParms' # NoFrame
          /\ newFParms' = NoFrame
     /\ (C29_AdoptionFailed /\ C29_CallStarts /\ callFParms' = callFParms) =>
          /\ err' = "reused"
          /\ pc' = "idle"
          /\ UNCHANGED genVars
     /\ (C29_AdoptionFailed /\ C29_CallStarts /\ callFParms' # callFParms) =>
          /\ err' = "none"
          /\ pc' = "loop"
          /\ outPos' = 0
          /\ newFParms' = callFParms'
          /\ NeedNewPeriod(pState')
     /\ (pc = "loop" /\ LoopContinues(outPos, outLen) /\ NeedNewPeriod(pState)) =>
          /\ fParms' = callFParms
          /\ newFParms' = NoFrame]_vars

\* C29 witness: after a failed adoption of frame 7 a call with the same instance
\* has failed with the reuse error, frame 7 still being the active frame and
\* nothing pending.
C29_Witness ==
  /\ pc = "idle"
  /\ err = "reused"
  /\ fParms = 7
  /\ callFParms = 7
  /\ newFParms = NoFrame

(* ---- C30: a disabled branch is not stepped ---- *)
C30_SampleWritten == pc = "loop" /\ Len(samples') = Len(samples) + 1
\* the filters the sample computation of the iteration starts from: those the
\* adoption left when the iteration began a period, the current ones otherwise
C30_Before == IF NeedNewPeriod(pState) THEN Adoption.filters ELSE filters
\* the filters and noise sources of the two branches
C30_CascadeState(flts) ==
  <<flts.nasalAntiformantCasc, flts.nasalFormantCasc, flts.oralFormantCasc,
    flts.aspirationSourceCasc>>
C30_ParallelState(flts) ==
  <<flts.nasalFormantPar, flts.oralFormantPar, flts.differencingFilterPar,
    flts.aspirationSourcePar, flts.fricationSourcePar>>

\* C30: the computation of a sample while the active frame has cascadeEnabled =
\* false leaves the delay state of the cascade anti-resonator, the cascade nasal
\* and oral resonators and the cascade aspiration noise filter unchanged and
\* takes 0 as the cascade contribution; with parallelEnabled = false it leaves
\* the parallel resonators, the previous input of the differencing filter and
\* the two parallel noise filters unchanged and takes 0 as the parallel
\* contribution.
C30_DisabledBranchNotStepped ==
  [][C30_SampleWritten =>
       LET rec == samples'[Len(samples')]
           fp == Frames[fParms']
       IN /\ ~fp.cascadeEnabled =>
               /\ C30_CascadeState(filters') = C30_CascadeState(C30_Before)
               /\ rec.cascadeOut = 0
          /\ ~fp.parallelEnabled =>
               /\ C30_ParallelState(filters') = C30_ParallelState(C30_Before)
               /\ rec.parallelOut = 0]_vars

\* C30 witness: a sample was computed with the cascade branch disabled and the
\* parallel branch enabled: the parallel noise filters were stepped, the first
\* cascade resonator still holds the delay line of the single step it made
\* under an earlier frame, and the cascade aspiration source was never stepped.
C30_Witness ==
  /\ pc = "loop"
  /\ Len(samples) >= 1
  /\ fParms # NoFrame
  /\ ~Frames[fParms].cascadeEnabled
  /\ samples[Len(samples)].cascadeOut = 0
  /\ samples[Len(samples)].parallelOut = Live
  /\ filters.aspirationSourcePar.y1 = Live
  /\ ~filters.oralFormantCasc[1].passthrough
  /\ filters.oralFormantCasc[1].y1 = Live
  /\ filters.oralFormantCasc[1].y2 = 0

(* ---- C27: the sound of the demo parameters ---- *)
\* C27: generateSound for the single frame of the demo parameters (gainDb NaN,
\* f0 247, duration 1 s) at 44100 Hz returns a buffer of 44100 samples, all of
\* them written, that is not identically zero.
C27_DemoSoundNotSilent ==
  (unit.kind = "demo" /\ sound.returned) =>
    /\ sound.outBufLen = 44100
    /\ unit.written = 44100
    /\ unit.nonzero

====
